---- MODULE Spec2Model ----
(***************************************************************************)
(* Verification model of the SSM2 client of ecLogger.                      *)
(*                                                                         *)
(*  - SpecLog  : the logging session (protocols/ssm2/logging.go): the      *)
(*               producer goroutine processPackets, the consumer of the    *)
(*               results channel and the cancellation of the context.      *)
(*  - SpecConn : InitECU / SendReadAddressesRequest over a byte stream     *)
(*               (sendPacket, NextPacket).                                 *)
(*  - SpecPkt  : the frame codec (newPacket, CalculateChecksum,            *)
(*               validateHeader, Packet.Data) applied to bounded inputs.   *)
(*                                                                         *)
(* Bytes are the integers 0..255; a Go slice index i is position i+1 of    *)
(* the sequence that models the slice.                                     *)
(***************************************************************************)
EXTENDS Integers, Sequences, FiniteSets, TLC

VARIABLES
    \* ---- logging session ----
    pc,          \* position of LoggingSession / processPackets
    params,      \* the primitive parameters the session was asked to log
    ctxDone,     \* TRUE once the context has been cancelled
    errCount,    \* processPackets' errCount
    results,     \* the buffered channel `results` (maps in the buffer)
    closed,      \* TRUE once close(results) has run
    values,      \* the map decoded from the current frame (its frame number), 0 = none
    nframes,     \* number of frames NextPacket has returned without error
    recent,      \* history: the last (up to three) outcomes of NextPacket
    sent,        \* history: every map sent on results, in order
    received,    \* history: every map the consumer received, in order
    sentAfterCancel,  \* history: number of sends that happened after cancellation
    derived,     \* the derived parameters the session was asked to evaluate
    requests,    \* history: the calls of conn.SendReadAddressesRequest, in order
    entries,     \* the content of the map `values`: what each id was computed from
    frame,       \* history: the data length of the frame being decoded and the
                 \* derived expressions that returned an error on it
    \* ---- connection ----
    cpc,         \* position of the running connection operation
    op,          \* the operation called and its arguments
    portOut,     \* bytes the serial port still has to deliver to Read
    portIn,      \* bytes the serial port has received through Write
    p,           \* sendPacket's p: the request, then the last frame read
    pcap,        \* capacity of the slice p
    sentCommand,     \* sendPacket's sentCommand
    currentCommand,  \* sendPacket's currentCommand
    ret,         \* what the operation returned
    nWrites,     \* history: calls of serialPort.Write
    nReads,      \* history: calls of NextPacket
    lastHdr,     \* history: the five bytes the last NextPacket read first
    layout,      \* history: how the bytes of portOut were laid out initially
    \* ---- frame codec ----
    codecIn,     \* input of a function applied on its own
    codecOut,    \* its result
    \* ---- life cycle of the serial port ----
    impl,        \* which connection type is in use (see Impls)
    serialPort,  \* the field serialPort: 0 for nil, else the number of the stream
    streams,     \* history: for every stream opened, the calls of its Close()
    calls,       \* history: the methods called on the connection, in order
    \* ---- NextPacket with its reader goroutines and timers ----
    rmode,       \* what the line delivers: nothing, noise without end, a frame
    feed,        \* bytes the ECU has still to send
    wire,        \* bytes that arrived at the port and were not read yet
    rctx,        \* TRUE once the context of the calls has been cancelled
    npc,         \* position of NextPacket: which readInFull it waits for
    hdr,         \* NextPacket's header
    rerr,        \* what NextPacket returned
    timer,       \* ticks since the readInFull that is waited for made its timer
    elapsed,     \* history: ticks since NextPacket was called
    gs,          \* the goroutines started by readInFull that still run
    lost,        \* history: bytes read by a goroutine whose readInFull had returned
    ncalls,      \* history: number of calls of NextPacket
    \* ---- logger-ui: suspending the logging for the DTC reads ----
    connection,     \* App.connection: 0 for nil, else the number of the connection
    cancelLogging,  \* LoggingTab.cancelLogging: 0 for nil, else the session it cancels
    doneLogging,    \* LoggingTab.doneLogging: 0 for nil, else the number of the channel
    sessions,       \* the goroutines started as openLoggingSession
    upc,            \* position of the callback that runs on the UI
    waitCh,         \* the channel DisableLogging receives from while it waits
    opened,         \* history: number of connections made
    dtcReads        \* history: the calls of readDTCs of the running refresh

logVars == <<pc, params, ctxDone, errCount, results, closed, values, nframes,
             recent, sent, received, sentAfterCancel, derived, requests, entries,
             frame>>

connVars == <<cpc, op, portOut, portIn, p, pcap, sentCommand, currentCommand,
              ret, nWrites, nReads, lastHdr, layout>>

pktVars == <<codecIn, codecOut>>

lifeVars == <<impl, serialPort, streams, calls>>

readVars == <<rmode, feed, wire, rctx, npc, hdr, rerr, timer, elapsed, gs, lost,
              ncalls>>

uiVars == <<connection, cancelLogging, doneLogging, sessions, upc, waitCh,
            opened, dtcReads>>

extVars == <<lifeVars, readVars, uiVars>>

vars == <<logVars, connVars, pktVars, extVars>>

(***************************************************************************)
(* Bounds                                                                  *)
(***************************************************************************)
MaxFrames == 12          \* frames the ECU delivers in one explored run
MaxDataLen == 3          \* data bytes of a frame read during a session
MaxCapSlack == 1         \* spare capacity of a frame's slice beyond its checksum
MaxEchoes == 2           \* echoes of the request in front of the response
MaxAddrs == 1            \* addresses of a read-addresses request
MaxPayloadLen == 3       \* length of the short payloads given to newPacket
MaxReqAddrs == 2         \* addresses of the short lists given to a request alone
MaxLongAddrs == 85       \* addresses of the longest list given to a request
MaxCapBytes == 3         \* capability bytes of an init response
MaxCalls == 4            \* methods called on one connection
TotalReadTimeoutTicks == 2   \* ticks of the clock in ConnectionTotalReadTimeout
MaxNextPackets == 2      \* calls of NextPacket in one explored run
MaxGoroutines == 2       \* reader goroutines alive at the same time
MaxWire == 2             \* bytes waiting unread in the port
MaxLost == 2             \* count of lost bytes kept
MaxSessions == 2         \* calls of EnableLogging
MaxConnections == 2      \* connections made one after the other
MaxProcessors == 2       \* logging processors registered
MaxListed == 3           \* parameters in a list whose orders are enumerated
MaxStoreOps == 3         \* operations on the LoggedParams store

(***************************************************************************)
(* Program constants                                                       *)
(***************************************************************************)
ResultsCap == 10         \* make(chan map[string]ParameterValue, 10)
MaxErrCount == 3         \* if errCount == 3

PacketMagicByte == 128
PacketHeaderSize == 5
PacketIndexPayloadStart == 5

DeviceEngine == 16
DeviceTransmission == 24
DeviceDiagnosticTool == 240
DeviceFastModeDiagnosticTool == 242

CommandReadBlockRequest == 160
CommandReadBlockResponse == 224
CommandReadAddressesRequest == 168
CommandReadAddressesResponse == 232
CommandWriteBlockRequest == 176
CommandWriteBlockResponse == 240
CommandWriteAddressRequest == 184
CommandWriteAddressResponse == 248
CommandInitRequest == 191
CommandInitResponse == 255

devices == {DeviceEngine, DeviceTransmission, DeviceDiagnosticTool,
            DeviceFastModeDiagnosticTool}

commandsWithNone == {0, CommandReadBlockRequest, CommandReadBlockResponse,
                     CommandReadAddressesRequest, CommandReadAddressesResponse,
                     CommandWriteBlockRequest, CommandWriteBlockResponse,
                     CommandWriteAddressRequest, CommandWriteAddressResponse,
                     CommandInitRequest, CommandInitResponse}

commands == {CommandReadBlockRequest, CommandReadBlockResponse,
             CommandReadAddressesRequest, CommandReadAddressesResponse,
             CommandWriteBlockRequest, CommandWriteBlockResponse,
             CommandWriteAddressRequest, CommandWriteAddressResponse,
             CommandInitRequest, CommandInitResponse}

(***************************************************************************)
(* Frame codec (packets.go)                                                *)
(***************************************************************************)
\* conversion of an int to a Go byte
ToByte(n) == n % 256

\* sum of s[lo..hi] (halved to keep the evaluation shallow)
RECURSIVE SumRange(_, _, _)
SumRange(s, lo, hi) ==
    IF lo > hi THEN 0
    ELSE IF lo = hi THEN s[lo]
    ELSE LET mid == (lo + hi) \div 2
         IN  SumRange(s, lo, mid) + SumRange(s, mid + 1, hi)

\* CalculateChecksum: sum of every byte but the last, as a byte
CalculateChecksum(packet) ==
    ToByte(SumRange(packet, 1, Len(packet) - 1))

DataWithChecksum(packet) ==
    SubSeq(packet, PacketIndexPayloadStart + 1, Len(packet))

\* Packet.Data: p[PacketIndexPayloadStart : len(p)-1]
Data(packet) == SubSeq(packet, PacketIndexPayloadStart + 1, Len(packet) - 1)

\* newPacket: the size field is computed in byte arithmetic,
\* byte(len(data)) + 1
newPacket(src, dest, cmd, data) ==
    LET size   == ToByte(ToByte(Len(data)) + 1)
        packet == <<PacketMagicByte, dest, src, size, cmd>> \o data \o <<0>>
    IN  [packet EXCEPT ![Len(packet)] = CalculateChecksum(packet)]

validateHeaderNoSource(b) ==
    IF Len(b) # PacketHeaderSize THEN "invalid header size"
    ELSE IF b[1] # PacketMagicByte THEN "invalid magic byte"
    ELSE IF b[2] \notin devices THEN "invalid destination"
    ELSE IF b[5] \notin commands THEN "invalid command"
    ELSE IF b[4] < 1 THEN "invalid payload size"
    ELSE "nil"

\* validateHeader: the error it returns, "nil" for none
validateHeader(b) ==
    IF Len(b) # PacketHeaderSize THEN "invalid header size"
    ELSE IF b[1] # PacketMagicByte THEN "invalid magic byte"
    ELSE IF b[2] \notin devices THEN "invalid destination"
    ELSE IF b[3] \notin devices THEN "invalid source"
    ELSE IF b[5] \notin commands THEN "invalid command"
    ELSE IF b[4] < 1 THEN "invalid payload size"
    ELSE "nil"

(***************************************************************************)
(* Idle values of the variables a specification does not use               *)
(***************************************************************************)
NoOp == [name |-> "none"]
NoRet == [err |-> "none"]
NoLayout == [echoes |-> 0, junk |-> << >>, resp |-> << >>, tail |-> << >>]
NoFrame == [dataLen |-> 0, failed |-> {}]

LogIdle ==
    /\ pc = "idle"
    /\ params = << >>
    /\ ctxDone = FALSE
    /\ errCount = 0
    /\ results = << >>
    /\ closed = FALSE
    /\ values = 0
    /\ nframes = 0
    /\ recent = << >>
    /\ sent = << >>
    /\ received = << >>
    /\ sentAfterCancel = 0
    /\ derived = << >>
    /\ requests = << >>
    /\ entries = << >>
    /\ frame = NoFrame

ConnIdle ==
    /\ cpc = "idle"
    /\ op = NoOp
    /\ portOut = << >>
    /\ portIn = << >>
    /\ p = << >>
    /\ pcap = 0
    /\ sentCommand = 0
    /\ currentCommand = 0
    /\ ret = NoRet
    /\ nWrites = 0
    /\ nReads = 0
    /\ lastHdr = << >>
    /\ layout = NoLayout

NoCodecOut == [fn |-> "none", packet |-> << >>, data |-> << >>, err |-> "none"]

PktIdle ==
    /\ codecIn = [src |-> 0, dest |-> 0, cmd |-> 0, data |-> << >>]
    /\ codecOut = NoCodecOut

LifeIdle ==
    /\ impl = "none"
    /\ serialPort = 0
    /\ streams = << >>
    /\ calls = << >>

ReadIdle ==
    /\ rmode = "none"
    /\ feed = << >>
    /\ wire = << >>
    /\ rctx = FALSE
    /\ npc = "idle"
    /\ hdr = << >>
    /\ rerr = "none"
    /\ timer = 0
    /\ elapsed = 0
    /\ gs = << >>
    /\ lost = 0
    /\ ncalls = 0

UiIdle ==
    /\ connection = 0
    /\ cancelLogging = 0
    /\ doneLogging = 0
    /\ sessions = << >>
    /\ upc = "none"
    /\ waitCh = 0
    /\ opened = 0
    /\ dtcReads = << >>

ExtIdle ==
    /\ LifeIdle
    /\ ReadIdle
    /\ UiIdle

(***************************************************************************)
(* Logging session (logging.go)                                            *)
(***************************************************************************)
LastN(s, n) == IF Len(s) <= n THEN s ELSE SubSeq(s, Len(s) - n + 1, Len(s))

\* Catalogue entries: the capability flag, Address.Address, Address.Length and
\* the number of bytes the Value function reads from the slice it is given
\* (v[0] reads 1, binary.BigEndian.Uint32(v) reads 4).
P7 == [Id |-> "P7", CapabilityByteIndex |-> 8, CapabilityBitIndex |-> 1,
       Address |-> <<0, 0, 13>>, Length |-> 1, reads |-> 1]
P8 == [Id |-> "P8", CapabilityByteIndex |-> 8, CapabilityBitIndex |-> 0,
       Address |-> <<0, 0, 14>>, Length |-> 2, reads |-> 4]
P9 == [Id |-> "P9", CapabilityByteIndex |-> 9, CapabilityBitIndex |-> 7,
       Address |-> <<0, 0, 16>>, Length |-> 1, reads |-> 1]
P11 == [Id |-> "P11", CapabilityByteIndex |-> 9, CapabilityBitIndex |-> 5,
        Address |-> <<0, 0, 18>>, Length |-> 1, reads |-> 1]
P12 == [Id |-> "P12", CapabilityByteIndex |-> 9, CapabilityBitIndex |-> 4,
        Address |-> <<0, 0, 19>>, Length |-> 2, reads |-> 4]
P21 == [Id |-> "P21", CapabilityByteIndex |-> 10, CapabilityBitIndex |-> 3,
        Address |-> <<0, 0, 32>>, Length |-> 1, reads |-> 1]
P160 == [Id |-> "P160", CapabilityByteIndex |-> 60, CapabilityBitIndex |-> 2,
         Address |-> <<0, 1, 231>>, Length |-> 1, reads |-> 1]
P239 == [Id |-> "P239", CapabilityByteIndex |-> 8, CapabilityBitIndex |-> 0,
         Address |-> <<0, 0, 111>>, Length |-> 1, reads |-> 1]
P240 == [Id |-> "P240", CapabilityByteIndex |-> 8, CapabilityBitIndex |-> 0,
         Address |-> <<0, 0, 112>>, Length |-> 1, reads |-> 1]
P241 == [Id |-> "P241", CapabilityByteIndex |-> 8, CapabilityBitIndex |-> 0,
         Address |-> <<0, 0, 113>>, Length |-> 1, reads |-> 1]

\* var Parameters (the entries the model works with)
Parameters == {P7, P8, P9, P11, P12, P21, P160, P239, P240, P241}

\* Derived parameters: fails tells whether the Value function can return an
\* error (no expression of the catalogue does).
P200 == [Id |-> "P200", DependsOnParameters |-> <<"P8", "P12">>, fails |-> FALSE]
P201 == [Id |-> "P201", DependsOnParameters |-> <<"P8", "P21">>, fails |-> FALSE]
P237 == [Id |-> "P237", DependsOnParameters |-> <<"P160", "P7">>, fails |-> FALSE]
P242 == [Id |-> "P242", DependsOnParameters |-> <<"P200", "P11", "P7">>, fails |-> FALSE]

\* var DerivedParameters (the entries the model works with)
DerivedParameters == {P200, P201, P237, P242}

ParamLists == { <<P7>>, <<P7, P9>>, <<P7, P8>> }

\* The loop over params of processPackets: "panic" when a slice expression
\* data[addrIndex : addrIndex+Length] exceeds the capacity of data or a Value
\* function indexes past the length of its slice, "ok" otherwise.
RECURSIVE DecodeFrom(_, _, _)
DecodeFrom(ps, addrIndex, dataCap) ==
    IF ps = << >> THEN "ok"
    ELSE IF addrIndex + Head(ps).Length > dataCap THEN "panic"
    ELSE IF Head(ps).reads > Head(ps).Length THEN "panic"
    ELSE DecodeFrom(Tail(ps), addrIndex + Head(ps).Length, dataCap)

Decode(ps, dataCap) == DecodeFrom(ps, 0, dataCap)

\* derived parameters of a caller whose Value functions can return an error
Custom1 == [Id |-> "D1", DependsOnParameters |-> <<"P7">>, fails |-> TRUE]
Custom2 == [Id |-> "D2", DependsOnParameters |-> <<"P7", "P9">>, fails |-> TRUE]

DerivedLists == { << >>, <<Custom1, P200>>, <<Custom1, Custom2>> }

AddressAddWithoutCarry(a, i) == <<a[1], a[2], (a[3] + i) % 256>>

\* Address.Add(i): the address i places further, in 24 bits
AddressAdd(a, i) ==
    LET n == (a[1] * 65536 + a[2] * 256 + a[3] + i) % 16777216
    IN  <<n \div 65536, (n \div 256) % 256, n % 256>>

\* for i := 0; i < param.Address.Length; i++ { ... param.Address.Add(i) }
AddressesOf(param) ==
    [i \in 1..param.Length |-> AddressAdd(param.Address, i - 1)]

\* addressesToRead of LoggingSession
RECURSIVE AddressesToRead(_)
AddressesToRead(ps) ==
    IF ps = << >> THEN << >>
    ELSE AddressesOf(Head(ps)) \o AddressesToRead(Tail(ps))

\* the empty map
EmptyMap == [id \in {} |-> 0]

\* what the map holds under the id of a primitive parameter: the value
\* decoded from data[from : to]; and under the id of a derived parameter
PrimitiveEntry(from, to) == [kind |-> "primitive", from |-> from, to |-> to]

DerivedEntry == [kind |-> "derived", from |-> 0, to |-> 0]

\* values after the loop over params, started at addrIndex
RECURSIVE PrimitiveEntries(_, _)
PrimitiveEntries(ps, addrIndex) ==
    IF ps = << >> THEN EmptyMap
    ELSE LET rest == PrimitiveEntries(Tail(ps), addrIndex + Head(ps).Length)
         IN  [id \in {Head(ps).Id} \cup DOMAIN rest |->
                IF id \in DOMAIN rest
                  THEN rest[id]
                  ELSE PrimitiveEntry(addrIndex, addrIndex + Head(ps).Length)]

DerivedStepDroppingAll(vals, param, failed) ==
    IF param.Id \in failed
      THEN EmptyMap
      ELSE [id \in DOMAIN vals \cup {param.Id} |->
              IF id = param.Id THEN DerivedEntry ELSE vals[id]]

\* one iteration of the loop over derived: an error leaves the map as it is
\* (continue), a value is stored under the id
DerivedStep(vals, param, failed) ==
    IF param.Id \in failed
      THEN vals
      ELSE [id \in DOMAIN vals \cup {param.Id} |->
              IF id = param.Id THEN DerivedEntry ELSE vals[id]]

\* values after the loop over derived
RECURSIVE WithDerived(_, _, _)
WithDerived(vals, ds, failed) ==
    IF ds = << >> THEN vals
    ELSE WithDerived(DerivedStep(vals, Head(ds), failed), Tail(ds), failed)

\* the ids of the derived parameters whose expressions can fail
CanFail(ds) == { ds[i].Id : i \in { j \in 1..Len(ds) : ds[j].fails } }

InitLog ==
    /\ pc = "start"
    /\ params \in ParamLists
    /\ ctxDone = FALSE
    /\ errCount = 0
    /\ results = << >>
    /\ closed = FALSE
    /\ values = 0
    /\ nframes = 0
    /\ recent = << >>
    /\ sent = << >>
    /\ received = << >>
    /\ sentAfterCancel = 0
    /\ derived \in DerivedLists
    /\ requests = << >>
    /\ entries = EmptyMap
    /\ frame = NoFrame
    /\ ConnIdle
    /\ PktIdle
    /\ ExtIdle

\* how conn.SendReadAddressesRequest ends: it returns a packet, returns an
\* error, or panics (the connection does after a short write that reports no
\* error, see Call)
RequestOutcomes == {"packet", "error", "panic"}

\* LoggingSession: the read-addresses request is sent and its response
\* dropped; on an error no channel is made and no goroutine started, otherwise
\* processPackets starts.  A panic of the connection ends the program.
LoggingSession(outcome) ==
    /\ pc = "start"
    /\ requests' = Append(requests, [addresses |-> AddressesToRead(params),
                                     continous |-> TRUE,
                                     outcome |-> outcome])
    /\ pc' = IF outcome = "packet" THEN "select"
             ELSE IF outcome = "error" THEN "failed"
             ELSE "panicked"
    /\ UNCHANGED <<params, ctxDone, errCount, results, closed, values, nframes,
                   recent, sent, received, sentAfterCancel>>
    /\ UNCHANGED <<derived, entries, frame>>
    /\ UNCHANGED <<connVars, pktVars, extVars>>

\* select { case <-ctx.Done(): close(results); return
SelectDone ==
    /\ pc = "select"
    /\ ctxDone
    /\ closed' = TRUE
    /\ pc' = "done"
    /\ UNCHANGED <<params, ctxDone, errCount, results, values, nframes,
                   recent, sent, received, sentAfterCancel>>
    /\ UNCHANGED <<derived, requests, entries, frame>>
    /\ UNCHANGED <<connVars, pktVars, extVars>>

\* select { ... default: (conn.NextPacket is called)
SelectDefault ==
    /\ pc = "select"
    /\ ~ctxDone
    /\ pc' = "read"
    /\ UNCHANGED <<params, ctxDone, errCount, results, closed, values, nframes,
                   recent, sent, received, sentAfterCancel>>
    /\ UNCHANGED <<derived, requests, entries, frame>>
    /\ UNCHANGED <<connVars, pktVars, extVars>>

\* errCount++ after a failed NextPacket
ErrCountAfterError(n) == n + 1

NextPacketErrorClosingWithoutReturn ==
    /\ pc = "read"
    /\ errCount' = (errCount + 1) % 3
    /\ recent' = LastN(Append(recent, "err"), 3)
    /\ closed' = (closed \/ errCount' = 0)
    /\ pc' = "select"
    /\ UNCHANGED <<params, ctxDone, results, values, nframes, sent, received,
                   sentAfterCancel>>
    /\ UNCHANGED <<derived, requests, entries, frame>>
    /\ UNCHANGED <<connVars, pktVars, extVars>>

\* NextPacket returned an error (bad frame, timeout, or ctx.Err()).
NextPacketError ==
    /\ pc = "read"
    /\ errCount' = ErrCountAfterError(errCount)
    /\ recent' = LastN(Append(recent, "err"), 3)
    /\ IF errCount' = MaxErrCount
         THEN closed' = TRUE /\ pc' = "done"
         ELSE closed' = closed /\ pc' = "select"
    /\ UNCHANGED <<params, ctxDone, results, values, nframes, sent, received,
                   sentAfterCancel>>
    /\ UNCHANGED <<derived, requests, entries, frame>>
    /\ UNCHANGED <<connVars, pktVars, extVars>>

ErrCountKept(n) == n

\* errCount = 0 after a frame was read
ErrCountAfterFrame(n) == 0

\* NextPacket returned a frame with dataLen data bytes in a slice with
\* capSlack spare bytes after the checksum: errCount is reset and the frame is
\* decoded into the map `values`, the expressions of the derived parameters in
\* failed returning an error; a panic in the decoding ends the program.
\* A read that completed can win the race against a concurrent cancellation,
\* so this is possible with ctxDone too.
NextPacketFrame(dataLen, capSlack, failed) ==
    /\ pc = "read"
    /\ nframes < MaxFrames
    /\ failed \subseteq CanFail(derived)
    /\ nframes' = nframes + 1
    /\ errCount' = ErrCountAfterFrame(errCount)
    /\ recent' = LastN(Append(recent, "ok"), 3)
    /\ IF Decode(params, dataLen + 1 + capSlack) = "ok"
         THEN /\ values' = nframes + 1
              /\ entries' = WithDerived(PrimitiveEntries(params, 0), derived, failed)
              /\ frame' = [dataLen |-> dataLen, failed |-> failed]
              /\ pc' = "publish"
         ELSE /\ values' = 0
              /\ entries' = EmptyMap
              /\ frame' = NoFrame
              /\ pc' = "panicked"
    /\ UNCHANGED <<params, ctxDone, results, closed, sent, received,
                   sentAfterCancel>>
    /\ UNCHANGED <<derived, requests>>
    /\ UNCHANGED <<connVars, pktVars, extVars>>

CanSendAlways(ch) == TRUE

\* a send on the buffered channel can proceed only while there is room
CanSend(ch) == Len(ch) < ResultsCap

\* results <- values
Publish ==
    /\ pc = "publish"
    /\ CanSend(results)
    /\ results' = Append(results, values)
    /\ sent' = Append(sent, values)
    /\ sentAfterCancel' = IF ctxDone THEN sentAfterCancel + 1 ELSE sentAfterCancel
    /\ values' = 0
    /\ entries' = EmptyMap
    /\ frame' = NoFrame
    /\ pc' = "select"
    /\ UNCHANGED <<params, ctxDone, errCount, closed, nframes, recent, received>>
    /\ UNCHANGED <<derived, requests>>
    /\ UNCHANGED <<connVars, pktVars, extVars>>

\* the consumer receives one map from the channel
Consume ==
    /\ pc # "panicked"
    /\ Len(results) > 0
    /\ received' = Append(received, Head(results))
    /\ results' = Tail(results)
    /\ UNCHANGED <<pc, params, ctxDone, errCount, closed, values, nframes,
                   recent, sent, sentAfterCancel>>
    /\ UNCHANGED <<derived, requests, entries, frame>>
    /\ UNCHANGED <<connVars, pktVars, extVars>>

\* the owner of the context cancels it
Cancel ==
    /\ pc # "panicked"
    /\ ~ctxDone
    /\ ctxDone' = TRUE
    /\ UNCHANGED <<pc, params, errCount, results, closed, values, nframes,
                   recent, sent, received, sentAfterCancel>>
    /\ UNCHANGED <<derived, requests, entries, frame>>
    /\ UNCHANGED <<connVars, pktVars, extVars>>

processPackets ==
    \/ SelectDone
    \/ SelectDefault
    \/ NextPacketError
    \/ \E dataLen \in 0..MaxDataLen, capSlack \in 0..MaxCapSlack,
          failed \in SUBSET CanFail(derived) :
          NextPacketFrame(dataLen, capSlack, failed)
    \/ Publish

NextLog ==
    \/ \E outcome \in RequestOutcomes : LoggingSession(outcome)
    \/ processPackets
    \/ Consume
    \/ Cancel

SpecLog == InitLog /\ [][NextLog]_vars

\* The goroutine keeps running while it has a step to take; NextPacket always
\* returns (data, a timeout, or ctx.Err()).  Nothing obliges the consumer to
\* read or the owner to cancel.
SpecLogFair == SpecLog /\ WF_vars(processPackets)

(***************************************************************************)
(* Connection (InitECU, SendReadAddressesRequest, sendPacket, NextPacket)  *)
(***************************************************************************)
\* Capacity the Go runtime gives a byte slice that append has to grow
\* (old capacity below 256): the larger of the needed length and twice the old
\* capacity, rounded up to an allocation size class.
SizeClasses == {8, 16, 24, 32, 48, 64, 80, 96, 112, 128, 144, 160, 176, 192,
                208, 224, 240, 256, 288}

RoundUpSize(n) == CHOOSE c \in SizeClasses :
                     c >= n /\ \A d \in SizeClasses : d >= n => c <= d

GrowCap(oldCap, newLen) ==
    RoundUpSize(IF newLen > 2 * oldCap THEN newLen ELSE 2 * oldCap)

\* capacity of append(s, more...) for a slice s of capacity oldCap
AppendCap(oldCap, newLen) ==
    IF newLen <= oldCap THEN oldCap ELSE GrowCap(oldCap, newLen)

\* readInFull on a stream that holds the bytes s: n bytes are read, or the
\* read fails (end of the stream, a timeout) after what was there is consumed
readInFull(s, n) ==
    IF Len(s) >= n
      THEN [ok |-> TRUE, bytes |-> SubSeq(s, 1, n), rest |-> SubSeq(s, n + 1, Len(s))]
      ELSE [ok |-> FALSE, bytes |-> s, rest |-> << >>]

NextPacketFails(err, rest) ==
    [err |-> err, packet |-> << >>, cap |-> 0, rest |-> rest]

ChecksumIgnored(packet) == TRUE

\* checksum == calculatedChecksum
ChecksumMatches(packet) == packet[Len(packet)] = CalculateChecksum(packet)

\* NextPacket from the payload on: header is valid and held in a slice of
\* capacity headerCap
ReadPayload(header, headerCap, s) ==
    LET r      == readInFull(s, header[4])
        packet == header \o r.bytes
    IN  IF ~r.ok THEN NextPacketFails("reading packet payload", r.rest)
        ELSE IF ~ChecksumMatches(packet)
          THEN NextPacketFails("ErrInvalidChecksumByte", r.rest)
        ELSE [err |-> "nil", packet |-> packet,
              cap |-> AppendCap(headerCap, Len(packet)), rest |-> r.rest]

\* position of the first magic byte of the header, 0 when there is none
MagicIndex(header) ==
    IF \E i \in 1..Len(header) : header[i] = PacketMagicByte
      THEN CHOOSE i \in 1..Len(header) :
             /\ header[i] = PacketMagicByte
             /\ \A j \in 1..(i - 1) : header[j] # PacketMagicByte
      ELSE 0

\* NextPacket on a stream that holds the bytes s: the error kind ("nil" for
\* none), the packet, the capacity of its slice, and the bytes left unread
RECURSIVE NextPacket(_)
NextPacket(s) ==
    LET r1 == readInFull(s, PacketHeaderSize)
    IN  IF ~r1.ok THEN NextPacketFails("reading packet header", r1.rest)
        ELSE IF validateHeader(r1.bytes) = "nil"
          THEN ReadPayload(r1.bytes, PacketHeaderSize, r1.rest)
        ELSE IF r1.bytes[1] = PacketMagicByte
          THEN NextPacketFails("invalid packet header", r1.rest)
        ELSE LET mbi == MagicIndex(r1.bytes) - 1
             IN  IF mbi < 0 THEN NextPacket(r1.rest)
                 ELSE LET r2     == readInFull(r1.rest, mbi)
                          header == SubSeq(r1.bytes, mbi + 1, PacketHeaderSize) \o r2.bytes
                      IN  IF ~r2.ok
                            THEN NextPacketFails("reading packet header", r2.rest)
                          ELSE IF validateHeader(header) # "nil"
                            THEN NextPacketFails("invalid packet header", r2.rest)
                          ELSE ReadPayload(header,
                                           AppendCap(PacketHeaderSize - mbi, PacketHeaderSize),
                                           r2.rest)

\* data[index] & (1 << bit) != 0
BitSet(b, bit) == (b \div (2 ^ bit)) % 2 = 1

\* What the range variable p of `for _, p := range DerivedParameters` holds
\* after the loop, which is where every &p taken in the loop points when the
\* build gives the loop one variable: the entry iterated last, and the order
\* of a map iteration is not fixed.  NoAlias stands for a build that gives
\* every iteration its own variable.
NoAlias == "none"

LoopVarOutcomes == {NoAlias} \cup { d.Id : d \in DerivedParameters }

\* AvailableDerivedParameters: prims holds the ids of the supported
\* primitives; the result maps the id of every derived parameter whose
\* dependencies are all in prims to the id of the entry its pointer leads to.
AvailableDerivedParameters(prims, last) ==
    LET available ==
          { d \in DerivedParameters :
              \A i \in 1..Len(d.DependsOnParameters) : d.DependsOnParameters[i] \in prims }
    IN  [id \in { d.Id : d \in available } |-> IF last = NoAlias THEN id ELSE last]

\* the loop over Parameters of parseECUFromInitResponse: the ids of the
\* parameters appended to ecu.SupportedParameters
SupportedParameters(data) ==
    { q.Id : q \in { r \in Parameters :
                       /\ ~(r.CapabilityByteIndex >= Len(data))
                       /\ BitSet(data[r.CapabilityByteIndex + 1], r.CapabilityBitIndex) } }

\* parseECUFromInitResponse: data[:3] and data[3:8] are taken from the slice
\* data = p.Data(), whose capacity is capacity - 5; they panic when 8 exceeds
\* it.  Bytes of the slice beyond the packet are zero.
parseECUFromInitResponse(packet, capacity, last) ==
    LET backing == packet \o [i \in 1..(capacity - Len(packet)) |-> 0]
        supported == SupportedParameters(Data(packet))
    IN  IF capacity - PacketIndexPayloadStart < 8
          THEN [err |-> "panic"]
          ELSE [err |-> "nil",
                ecu |-> [SSM_ID |-> SubSeq(backing, 6, 8),
                         ROM_ID |-> SubSeq(backing, 9, 13),
                         SupportedParameters |-> supported,
                         SupportedDerivedParameters |->
                             AvailableDerivedParameters(supported, last)]]

\* the data of a read-addresses request: the flag, then the addresses
RECURSIVE Flatten(_)
Flatten(addresses) ==
    IF addresses = << >> THEN << >>
    ELSE Head(addresses) \o Flatten(Tail(addresses))

ReadAddressesData(addresses, continous) ==
    <<IF continous THEN 1 ELSE 0>> \o Flatten(addresses)

RequestPacketReversed(o) ==
    IF o.name = "InitECU"
      THEN newPacket(DeviceEngine, DeviceDiagnosticTool, CommandInitRequest, << >>)
      ELSE newPacket(DeviceEngine, DeviceDiagnosticTool, CommandReadAddressesRequest,
                     ReadAddressesData(o.addresses, o.continous))

\* the packet an operation sends and the response command paired with it
RequestPacket(o) ==
    IF o.name = "InitECU"
      THEN newPacket(DeviceDiagnosticTool, DeviceEngine, CommandInitRequest, << >>)
      ELSE newPacket(DeviceDiagnosticTool, DeviceEngine, CommandReadAddressesRequest,
                     ReadAddressesData(o.addresses, o.continous))

ExpectedResponse(o) ==
    IF o.name = "InitECU" THEN CommandInitResponse
                          ELSE CommandReadAddressesResponse

\* ---- the inputs: operations and byte streams ----
Addresses == { <<0, 0, 1>>, <<0, 0, 10>> }

RECURSIVE SeqsUpTo(_, _)
SeqsUpTo(S, n) ==
    IF n = 0 THEN { << >> }
    ELSE LET shorter == SeqsUpTo(S, n - 1)
         IN  shorter \cup { Append(q, x) : q \in shorter, x \in S }

Ops ==
    { [name |-> "InitECU"] }
    \cup { [name |-> "SendReadAddressesRequest", addresses |-> a, continous |-> c] :
             a \in SeqsUpTo(Addresses, MaxAddrs), c \in BOOLEAN }

\* headers of the frame sent in response, valid and invalid in each field
RespHeaders ==
    { <<m, d, s, n, c>> :
        m \in {PacketMagicByte, 129},
        d \in {DeviceDiagnosticTool, DeviceEngine, CommandInitRequest},
        s \in {DeviceEngine, 0},
        n \in {0, 1, 9},
        c \in {CommandInitResponse, CommandReadAddressesResponse,
               CommandInitRequest, CommandReadAddressesRequest, 0} }

\* the frame with header h: size-1 data bytes and a checksum that is right
\* (delta = 0) or off by delta
FrameOf(h, delta) ==
    LET data == [i \in 1..(IF h[4] > 0 THEN h[4] - 1 ELSE 0) |-> 31 + i]
        body == h \o data \o <<0>>
    IN  [body EXCEPT ![Len(body)] = ToByte(CalculateChecksum(body) + delta)]

RespFrames == { FrameOf(h, delta) : h \in RespHeaders, delta \in {0, 1} }

\* bytes left over from an earlier exchange in front of the response
Junk == { << >>, <<129>>, <<0, 0, 0, 0, 0>> }

\* what follows the response on the line
Tails == { << >>, FrameOf(<<PacketMagicByte, DeviceDiagnosticTool, DeviceEngine, 2,
                            CommandReadAddressesResponse>>, 0) }

RECURSIVE Repeat(_, _)
Repeat(s, n) == IF n = 0 THEN << >> ELSE s \o Repeat(s, n - 1)

InitConn ==
    /\ cpc = "idle"
    /\ op \in Ops
    /\ layout \in [echoes : 0..MaxEchoes, junk : Junk, resp : RespFrames, tail : Tails]
    /\ portOut = Repeat(RequestPacket(op), layout.echoes)
                   \o layout.junk \o layout.resp \o layout.tail
    /\ portIn = << >>
    /\ p = << >>
    /\ pcap = 0
    /\ sentCommand = 0
    /\ currentCommand = 0
    /\ ret = NoRet
    /\ nWrites = 0
    /\ nReads = 0
    /\ lastHdr = << >>
    /\ LogIdle
    /\ PktIdle
    /\ ExtIdle

\* The operation builds its request and sendPacket writes it.  written is what
\* serialPort.Write reports: "ok", "error", or "short" for fewer bytes than the
\* packet has and no error; errors.Wrapf of a nil error is nil, so after a
\* short write sendPacket returns (nil, nil) and the caller indexes a nil
\* packet.
Call(name, written) ==
    /\ cpc = "idle"
    /\ op.name = name
    /\ LET request == RequestPacket(op)
       IN  /\ nWrites' = nWrites + 1
           /\ portIn' = portIn \o (IF written = "ok" THEN request
                                   ELSE IF written = "short"
                                     THEN SubSeq(request, 1, Len(request) - 1)
                                   ELSE << >>)
           /\ p' = request
           /\ pcap' = Len(request)
           /\ sentCommand' = request[5]
           /\ currentCommand' = request[5]
           /\ IF written = "ok" THEN cpc' = "loop" /\ ret' = ret
              ELSE /\ cpc' = "returned"
                   /\ ret' = [err |-> IF written = "error"
                                        THEN "writing packet bytes" ELSE "panic"]
    /\ UNCHANGED <<op, portOut, nReads, lastHdr, layout>>
    /\ UNCHANGED <<logVars, pktVars, extVars>>

InitECU(written) == Call("InitECU", written)

SendReadAddressesRequest(written) == Call("SendReadAddressesRequest", written)

IsEchoNever(current, sentCmd) == FALSE

\* for currentCommand == sentCommand
IsEcho(current, sentCmd) == current = sentCmd

\* one iteration of sendPacket's loop: NextPacket, and the return of its error
sendPacketRead ==
    /\ cpc = "loop"
    /\ IsEcho(currentCommand, sentCommand)
    /\ LET r == NextPacket(portOut)
       IN  /\ nReads' = nReads + 1
           /\ lastHdr' = readInFull(portOut, PacketHeaderSize).bytes
           /\ portOut' = r.rest
           /\ IF r.err # "nil"
                THEN /\ ret' = [err |-> r.err]
                     /\ cpc' = "returned"
                     /\ UNCHANGED <<p, pcap, currentCommand>>
                ELSE /\ p' = r.packet
                     /\ pcap' = r.cap
                     /\ currentCommand' = r.packet[5]
                     /\ UNCHANGED <<ret, cpc>>
    /\ UNCHANGED <<op, portIn, sentCommand, nWrites, layout>>
    /\ UNCHANGED <<logVars, pktVars, extVars>>

\* sendPacket returns p and the operation checks the response command
Return ==
    /\ cpc = "loop"
    /\ ~IsEcho(currentCommand, sentCommand)
    /\ cpc' = "returned"
    /\ \E last \in LoopVarOutcomes :
          ret' = IF p[5] # ExpectedResponse(op)
                   THEN [err |-> "ErrInvalidResponseCommand"]
                 ELSE IF op.name = "InitECU"
                   THEN parseECUFromInitResponse(p, pcap, last)
                 ELSE [err |-> "nil", packet |-> p]
    /\ UNCHANGED <<op, portOut, portIn, p, pcap, sentCommand, currentCommand,
                   nWrites, nReads, lastHdr, layout>>
    /\ UNCHANGED <<logVars, pktVars, extVars>>

WriteOutcomes == {"ok", "error", "short"}

NextConn ==
    \/ \E written \in WriteOutcomes : InitECU(written)
    \/ \E written \in WriteOutcomes : SendReadAddressesRequest(written)
    \/ sendPacketRead
    \/ Return

SpecConn == InitConn /\ [][NextConn]_vars

(***************************************************************************)
(* SendReadAddressesRequest on address lists of every size                 *)
(***************************************************************************)
\* lists around the largest one whose data fits the size byte
LongLists == { [i \in 1..n |-> <<0, 0, i>>] : n \in 84..MaxLongAddrs }

ReqOps ==
    { [name |-> "SendReadAddressesRequest", addresses |-> a, continous |-> c] :
        a \in SeqsUpTo(Addresses, MaxReqAddrs) \cup LongLists, c \in BOOLEAN }

\* the read-addresses responses the line delivers: without data, with data,
\* and a write-block response
ReqResps ==
    { FrameOf(<<PacketMagicByte, DeviceDiagnosticTool, DeviceEngine, n, c>>, 0) :
        n \in {1, 3}, c \in {CommandReadAddressesResponse, CommandWriteBlockResponse} }

InitReq ==
    /\ cpc = "idle"
    /\ op \in ReqOps
    /\ layout \in [echoes : {0}, junk : {<< >>}, resp : ReqResps, tail : {<< >>}]
    /\ portOut = layout.resp
    /\ portIn = << >>
    /\ p = << >>
    /\ pcap = 0
    /\ sentCommand = 0
    /\ currentCommand = 0
    /\ ret = NoRet
    /\ nWrites = 0
    /\ nReads = 0
    /\ lastHdr = << >>
    /\ LogIdle
    /\ PktIdle
    /\ ExtIdle

NextReq ==
    \/ \E written \in WriteOutcomes : SendReadAddressesRequest(written)
    \/ sendPacketRead
    \/ Return

SpecReq == InitReq /\ [][NextReq]_vars

(***************************************************************************)
(* The frame codec applied to bounded inputs                               *)
(***************************************************************************)
PayloadBytes == {0, 1, 128, 255}

\* payloads around the largest length the size byte can hold
LongPayloads == { [i \in 1..n |-> b] : n \in {254, 255, 256}, b \in {1, 255} }

Payloads == SeqsUpTo(PayloadBytes, MaxPayloadLen) \cup LongPayloads

InitPkt ==
    /\ codecIn \in [src : devices, dest : devices, cmd : commands, data : Payloads]
    /\ codecOut = NoCodecOut
    /\ LogIdle
    /\ ConnIdle
    /\ ExtIdle

\* packet := newPacket(src, dest, cmd, data)
newPacketCall ==
    /\ codecOut.fn = "none"
    /\ codecOut' = [codecOut EXCEPT
                      !.fn = "newPacket",
                      !.packet = newPacket(codecIn.src, codecIn.dest,
                                           codecIn.cmd, codecIn.data)]
    /\ UNCHANGED codecIn
    /\ UNCHANGED <<logVars, connVars, extVars>>

\* packet.Data()
DataCall ==
    /\ codecOut.fn = "newPacket"
    /\ codecOut' = [codecOut EXCEPT !.fn = "Data", !.data = Data(codecOut.packet)]
    /\ UNCHANGED codecIn
    /\ UNCHANGED <<logVars, connVars, extVars>>

\* validateHeader(packet[:PacketHeaderSize])
validateHeaderCall ==
    /\ codecOut.fn = "Data"
    /\ codecOut' = [codecOut EXCEPT
                      !.fn = "validateHeader",
                      !.err = validateHeader(SubSeq(codecOut.packet, 1, PacketHeaderSize))]
    /\ UNCHANGED codecIn
    /\ UNCHANGED <<logVars, connVars, extVars>>

NextPkt ==
    \/ newPacketCall
    \/ DataCall
    \/ validateHeaderCall

SpecPkt == InitPkt /\ [][NextPkt]_vars

(***************************************************************************)
(* The capability resolver applied to bounded inputs                       *)
(***************************************************************************)
\* SSM_ID and ROM_ID of an init response
InitIds == <<2, 3, 4, 16, 64, 161, 50, 177>>

CapBytes == {0, 1, 16, 187}

CapStrings == SeqsUpTo(CapBytes, MaxCapBytes)

\* every bit set in c1 is set in c2
Covers(c1, c2) ==
    /\ Len(c1) = Len(c2)
    /\ \A i \in 1..Len(c1) : \A bit \in 0..7 :
          BitSet(c1[i], bit) => BitSet(c2[i], bit)

\* An init response to parse: the ids (cut short in a response that ends
\* early), the capability bytes, a second capability string that has every
\* bit of the first, and whether NextPacket had to realign to read it.
ParseInputs ==
    { [fn |-> "parseECUFromInitResponse", ids |-> SubSeq(InitIds, 1, n),
       caps |-> << >>, caps2 |-> << >>, resynced |-> r] :
        n \in 0..7, r \in BOOLEAN }
    \cup
    { [fn |-> "parseECUFromInitResponse", ids |-> InitIds,
       caps |-> cc[1], caps2 |-> cc[2], resynced |-> r] :
        cc \in { x \in CapStrings \X CapStrings : Covers(x[1], x[2]) },
        r \in BOOLEAN }

ParameterIds == { q.Id : q \in Parameters }

ResolverInputs ==
    { [fn |-> "AvailableDerivedParameters", prims |-> S] : S \in SUBSET ParameterIds }

\* the init response the ECU sends around a payload
InitResponsePacket(payload) ==
    newPacket(DeviceEngine, DeviceDiagnosticTool, CommandInitResponse, payload)

\* capacity of the slice NextPacket returns the packet in
PacketCap(resynced, packet) ==
    AppendCap(IF resynced
                THEN AppendCap(PacketHeaderSize - 1, PacketHeaderSize)
                ELSE PacketHeaderSize,
              Len(packet))

InitEcu ==
    /\ codecIn \in ParseInputs \cup ResolverInputs
    /\ codecOut = NoCodecOut
    /\ LogIdle
    /\ ConnIdle
    /\ ExtIdle

\* ecu := parseECUFromInitResponse(rp)
parseECUFromInitResponseCall(last) ==
    /\ codecIn.fn = "parseECUFromInitResponse"
    /\ codecOut.fn = "none"
    /\ LET packet == InitResponsePacket(codecIn.ids \o codecIn.caps)
       IN  codecOut' = [fn |-> "parsed",
                        first |-> parseECUFromInitResponse(
                                      packet, PacketCap(codecIn.resynced, packet), last),
                        second |-> NoRet]
    /\ UNCHANGED codecIn
    /\ UNCHANGED <<logVars, connVars, extVars>>

\* the same for the response with the second capability string
parseECUFromInitResponseAgain(last) ==
    /\ codecOut.fn = "parsed"
    /\ codecOut.first.err = "nil"
    /\ LET packet == InitResponsePacket(codecIn.ids \o codecIn.caps2)
       IN  codecOut' = [codecOut EXCEPT
                          !.fn = "parsedBoth",
                          !.second = parseECUFromInitResponse(
                                       packet, PacketCap(codecIn.resynced, packet), last)]
    /\ UNCHANGED codecIn
    /\ UNCHANGED <<logVars, connVars, extVars>>

\* derived := AvailableDerivedParameters(params)
AvailableDerivedParametersCall(last) ==
    /\ codecIn.fn = "AvailableDerivedParameters"
    /\ codecOut.fn = "none"
    /\ codecOut' = [fn |-> "AvailableDerivedParameters",
                    derived |-> AvailableDerivedParameters(codecIn.prims, last)]
    /\ UNCHANGED codecIn
    /\ UNCHANGED <<logVars, connVars, extVars>>

\* the orders in which a `range` over a map can meet the keys in S: Go fixes
\* none, every run takes its own
RECURSIVE IterationOrders(_)
IterationOrders(S) ==
    IF S = {} THEN {<< >>}
    ELSE UNION { { <<x>> \o o : o \in IterationOrders(S \ {x}) } : x \in S }

\* parseECUFromInitResponse run twice on the same response: the supported
\* primitives are appended in the order `range Parameters` meets them (o1,
\* o2), the derived ones are listed in the order a range over the returned
\* map meets them (d1, d2)
parseECUFromInitResponseRuns ==
    /\ codecIn.fn = "parseECUFromInitResponse"
    /\ codecOut.fn = "none"
    /\ LET packet == InitResponsePacket(codecIn.ids \o codecIn.caps)
           r == parseECUFromInitResponse(packet, PacketCap(codecIn.resynced, packet),
                                         NoAlias)
       IN  /\ r.err = "nil"
           /\ Cardinality(r.ecu.SupportedParameters) <= MaxListed
           /\ Cardinality(DOMAIN r.ecu.SupportedDerivedParameters) <= MaxListed
           /\ \E o1, o2 \in IterationOrders(r.ecu.SupportedParameters),
                 d1, d2 \in IterationOrders(DOMAIN r.ecu.SupportedDerivedParameters) :
                 codecOut' = [fn |-> "runs",
                              first |-> [SupportedParameters |-> o1,
                                         SupportedDerivedParameters |-> d1],
                              second |-> [SupportedParameters |-> o2,
                                          SupportedDerivedParameters |-> d2]]
    /\ UNCHANGED codecIn
    /\ UNCHANGED <<logVars, connVars, extVars>>

NextEcu ==
    \/ \E last \in LoopVarOutcomes : parseECUFromInitResponseCall(last)
    \/ \E last \in LoopVarOutcomes : parseECUFromInitResponseAgain(last)
    \/ \E last \in LoopVarOutcomes : AvailableDerivedParametersCall(last)
    \/ parseECUFromInitResponseRuns

SpecEcu == InitEcu /\ [][NextEcu]_vars

(***************************************************************************)
(* The life cycle of the serial port.  Two connection types are in the     *)
(* repository: connection (NewConnection is handed the stream; InitECU,    *)
(* SendReadAddressesRequest, NextPacket, Close) and the older Connection   *)
(* (NewConnection opens the port by name; Initialize, Close).              *)
(***************************************************************************)
Impls == {"connection", "Connection"}

\* NewConnection: connection stores the stream it is given, which may be nil;
\* Connection runs Initialize, which opens the port (a failed open returns no
\* connection at all)
InitLife ==
    /\ impl \in Impls
    /\ serialPort \in (IF impl = "connection" THEN {0, 1} ELSE {1})
    /\ streams = (IF serialPort = 0 THEN << >> ELSE <<0>>)
    /\ calls = << >>
    /\ LogIdle
    /\ ConnIdle
    /\ PktIdle
    /\ ReadIdle
    /\ UiIdle

\* the stream serialPort refers to has had Close() called once more
StreamClosed == [streams EXCEPT ![serialPort] = @ + 1]

\* InitECU, SendReadAddressesRequest, NextPacket of connection: they read and
\* write the stream and never assign serialPort
Operation ==
    /\ impl = "connection"
    /\ Len(calls) < MaxCalls
    /\ calls' = Append(calls, "Operation")
    /\ UNCHANGED <<impl, serialPort, streams>>
    /\ UNCHANGED <<logVars, connVars, pktVars, readVars, uiVars>>

\* connection.Close: closes the stream whenever the field is not nil and
\* returns what the stream's Close returned; the field is never assigned
Close ==
    /\ impl = "connection"
    /\ Len(calls) < MaxCalls
    /\ calls' = Append(calls, "Close")
    /\ streams' = (IF serialPort # 0 THEN StreamClosed ELSE streams)
    /\ UNCHANGED <<impl, serialPort>>
    /\ UNCHANGED <<logVars, connVars, pktVars, readVars, uiVars>>

\* Connection.Close: nothing when the field is nil; else the stream's Close
\* is called, and the field becomes nil only when that returned no error
ConnectionClose(closeErr) ==
    /\ impl = "Connection"
    /\ Len(calls) < MaxCalls
    /\ calls' = Append(calls, "Close")
    /\ IF serialPort = 0
         THEN UNCHANGED <<serialPort, streams>>
         ELSE /\ streams' = StreamClosed
              /\ serialPort' = (IF closeErr THEN serialPort ELSE 0)
    /\ UNCHANGED impl
    /\ UNCHANGED <<logVars, connVars, pktVars, readVars, uiVars>>

\* Connection.Initialize: closes a stream that is held (an error of that
\* Close returns early), then opens the port again and stores the new stream
\* (an error of the open leaves the field nil)
Initialize(closeErr, openErr) ==
    /\ impl = "Connection"
    /\ Len(calls) < MaxCalls
    /\ calls' = Append(calls, "Initialize")
    /\ LET closing == serialPort # 0
           afterClose == IF closing THEN StreamClosed ELSE streams
       IN  IF closing /\ closeErr
             THEN /\ streams' = afterClose
                  /\ UNCHANGED serialPort
             ELSE IF openErr
               THEN /\ streams' = afterClose
                    /\ serialPort' = 0
               ELSE /\ streams' = Append(afterClose, 0)
                    /\ serialPort' = Len(afterClose) + 1
    /\ UNCHANGED impl
    /\ UNCHANGED <<logVars, connVars, pktVars, readVars, uiVars>>

NextLife ==
    \/ Operation
    \/ Close
    \/ \E closeErr \in BOOLEAN : ConnectionClose(closeErr)
    \/ \E closeErr \in BOOLEAN : \E openErr \in BOOLEAN :
          Initialize(closeErr, openErr)

SpecLife == InitLife /\ [][NextLife]_vars

(***************************************************************************)
(* Unit conversion (package units, ParameterValue.ConvertTo and            *)
(* SafeConvertTo).  A float32 is modelled by the exact fraction it stands  *)
(* for, <<numerator, denominator>> in lowest terms; the factors of the     *)
(* conversion table are taken with the seven significant digits a float32  *)
(* keeps, and the rounding of a product is left out.                       *)
(***************************************************************************)
\* the valid units
Units == {
    "mph", "km/h", "miles", "km", "rpm", "degrees", "F", "C", "psi", "bar",
    "kPa", "hPa", "MPa", "inHg", "mmHg", "g/s", "AFR", "Lambda", "degCA",
    "mm3/st", "mg/cyl", "mpg (US)", "mpg (UK)", "km/l", "l/100k", "V", "A",
    "mA", "ohm", "Time", "ms", "us", "%", "steps", "gear", "count",
    "misfire count", "multiplier", "index", "raw ecu value", "degrees/s",
    "m/s2", "g/rev", "Times", "g", "coefficient", "Nm" }

RECURSIVE Gcd(_, _)
Gcd(a, b) == IF b = 0 THEN a ELSE Gcd(b, a % b)

Abs(n) == IF n < 0 THEN 0 - n ELSE n

\* the fraction n/d in lowest terms, d > 0
Frac(n, d) == LET g == Gcd(Abs(n), d) IN <<n \div g, d \div g>>

\* the float32 zero value
Zero == <<0, 1>>

\* the entries of UnitConversions that multiply by a factor, as
\* <<factor numerator, factor denominator>>
Factors ==
       <<"mph", "km/h">> :> <<160934, 100000>> @@
       <<"km/h", "mph">> :> <<621371, 1000000>> @@
       <<"kPa", "psi">> :> <<37, 255>> @@
       <<"kPa", "bar">> :> <<1, 100>> @@
       <<"kPa", "hPa">> :> <<10, 1>> @@
       <<"kPa", "inHg">> :> <<2953, 10000>> @@
       <<"kPa", "mmHg">> :> <<75, 10>> @@
       <<"psi", "kPa">> :> <<255, 37>> @@
       <<"psi", "bar">> :> <<6894757, 100000000>> @@
       <<"psi", "hPa">> :> <<2550, 37>> @@
       <<"psi", "inHg">> :> <<203602, 100000>> @@
       <<"psi", "mmHg">> :> <<517149, 10000>> @@
       <<"bar", "psi">> :> <<145038, 10000>> @@
       <<"bar", "kPa">> :> <<100, 1>> @@
       <<"bar", "hPa">> :> <<1000, 1>> @@
       <<"bar", "inHg">> :> <<2953, 100>> @@
       <<"bar", "mmHg">> :> <<750062, 1000>> @@
       <<"hPa", "psi">> :> <<145038, 10000000>> @@
       <<"hPa", "bar">> :> <<1, 1000>> @@
       <<"hPa", "kPa">> :> <<1, 10>> @@
       <<"hPa", "inHg">> :> <<2952998, 100000000>> @@
       <<"hPa", "mmHg">> :> <<7500616, 10000000>> @@
       <<"inHg", "psi">> :> <<491154, 1000000>> @@
       <<"inHg", "bar">> :> <<338639, 10000000>> @@
       <<"inHg", "kPa">> :> <<3386389, 1000000>> @@
       <<"inHg", "hPa">> :> <<3386389, 100000>> @@
       <<"inHg", "mmHg">> :> <<254, 10>> @@
       <<"mmHg", "psi">> :> <<193368, 10000000>> @@
       <<"mmHg", "bar">> :> <<133322, 100000000>> @@
       <<"mmHg", "kPa">> :> <<1333224, 10000000>> @@
       <<"mmHg", "hPa">> :> <<1333224, 1000000>> @@
       <<"mmHg", "inHg">> :> <<393701, 10000000>>

\* v * factor
Scaled(v, f) == Frac(v[1] * f[1], v[2] * f[2])

\* UnitConversions: the function stored for from -> to applied to v; F and C
\* convert with (v - 32) / 9 * 5 and (v / 5 * 9) + 32
ConversionEdges == DOMAIN Factors \cup {<<"F", "C">>, <<"C", "F">>}

ApplyConversion(from, to, v) ==
    IF <<from, to>> = <<"F", "C">> THEN Frac((v[1] - 32 * v[2]) * 5, v[2] * 9)
    ELSE IF <<from, to>> = <<"C", "F">> THEN Frac(v[1] * 9 + 32 * 5 * v[2], v[2] * 5)
    ELSE Scaled(v, Factors[<<from, to>>])

\* cvs := UnitConversions[from]; cvs == nil
NoConversionsFrom(from) == \A e \in ConversionEdges : e[1] # from

\* units.Convert
Convert(value, from, to) ==
    IF NoConversionsFrom(from)
      THEN [value |-> Zero, err |-> "ErrorInvalidConversion"]
    ELSE IF <<from, to>> \notin ConversionEdges
      THEN [value |-> Zero, err |-> "ErrorInvalidConversion"]
    ELSE [value |-> ApplyConversion(from, to, value), err |-> "nil"]

\* a nil *ParameterValue
NilValue == [nil |-> TRUE]

ConvertToKeepingUnit(v, u) ==
    IF u = v.Unit
      THEN [pv |-> [Value |-> v.Value, Unit |-> v.Unit], err |-> "nil", receiver |-> v]
      ELSE LET r == Convert(v.Value, v.Unit, u)
           IN  IF r.err # "nil"
                 THEN [pv |-> NilValue, err |-> r.err, receiver |-> v]
                 ELSE [pv |-> [Value |-> r.value, Unit |-> v.Unit], err |-> "nil",
                       receiver |-> v]

\* ParameterValue.ConvertTo; receiver is the value of v after the call (v is
\* passed by value)
ConvertTo(v, u) ==
    IF u = v.Unit
      THEN [pv |-> [Value |-> v.Value, Unit |-> v.Unit], err |-> "nil", receiver |-> v]
      ELSE LET r == Convert(v.Value, v.Unit, u)
           IN  IF r.err # "nil"
                 THEN [pv |-> NilValue, err |-> r.err, receiver |-> v]
                 ELSE [pv |-> [Value |-> r.value, Unit |-> u], err |-> "nil",
                       receiver |-> v]

SafeConvertToKeepingValue(v, u) ==
    LET r == ConvertTo(v, u)
    IN  IF r.pv # NilValue THEN r.pv ELSE [Value |-> v.Value, Unit |-> u]

\* ParameterValue.SafeConvertTo
SafeConvertTo(v, u) ==
    LET r == ConvertTo(v, u)
    IN  IF r.pv # NilValue THEN r.pv ELSE [Value |-> Zero, Unit |-> u]

\* the values converted: 0, 10, 25, -40 and 14.7
SampleValues == {<<0, 1>>, <<10, 1>>, <<25, 1>>, <<-40, 1>>, <<147, 10>>}

InitUnits ==
    /\ codecIn \in [value : SampleValues, from : Units, to : Units]
    /\ codecOut = [fn |-> "none"]
    /\ LogIdle
    /\ ConnIdle
    /\ ExtIdle

ConvertCall ==
    /\ codecOut.fn = "none"
    /\ codecOut' = [fn |-> "Convert",
                    out |-> Convert(codecIn.value, codecIn.from, codecIn.to)]
    /\ UNCHANGED codecIn
    /\ UNCHANGED <<logVars, connVars, extVars>>

ConvertToCall ==
    /\ codecOut.fn = "none"
    /\ codecOut' = [fn |-> "ConvertTo",
                    out |-> ConvertTo([Value |-> codecIn.value, Unit |-> codecIn.from],
                                      codecIn.to)]
    /\ UNCHANGED codecIn
    /\ UNCHANGED <<logVars, connVars, extVars>>

SafeConvertToCall ==
    /\ codecOut.fn = "none"
    /\ codecOut' = [fn |-> "SafeConvertTo",
                    out |-> SafeConvertTo([Value |-> codecIn.value, Unit |-> codecIn.from],
                                          codecIn.to)]
    /\ UNCHANGED codecIn
    /\ UNCHANGED <<logVars, connVars, extVars>>

NextUnits ==
    \/ ConvertCall
    \/ ConvertToCall
    \/ SafeConvertToCall

SpecUnits == InitUnits /\ [][NextUnits]_vars

(***************************************************************************)
(* The Value functions of the primitive parameters of two bytes, applied   *)
(* as processPackets applies them: to data[addrIndex : addrIndex+Length].  *)
(***************************************************************************)
\* the Value functions of the catalogue's parameters with Length 2: each is
\* float32(binary.BigEndian.Uint32(v)) * mul / div + add, with its unit
TwoByteDecoders ==
       "P8" :> [mul |-> 1, div |-> 4, add |-> 0, Unit |-> "rpm"] @@
       "P12" :> [mul |-> 1, div |-> 100, add |-> 0, Unit |-> "g/s"] @@
       "P14" :> [mul |-> 1, div |-> 200, add |-> 0, Unit |-> "V"] @@
       "P15" :> [mul |-> 1, div |-> 200, add |-> 0, Unit |-> "V"] @@
       "P16" :> [mul |-> 1, div |-> 200, add |-> 0, Unit |-> "V"] @@
       "P120" :> [mul |-> 2, div |-> 1, add |-> 0, Unit |-> "km"] @@
       "P121" :> [mul |-> 1, div |-> 10, add |-> 0, Unit |-> "bar"] @@
       "P156" :> [mul |-> 1, div |-> 256, add |-> 0, Unit |-> "mm3/st"] @@
       "P167" :> [mul |-> 1, div |-> 4, add |-> 0, Unit |-> "rpm"] @@
       "P170" :> [mul |-> 1, div |-> 1, add |-> 0, Unit |-> "mA"] @@
       "P175" :> [mul |-> 1, div |-> 1, add |-> 0, Unit |-> "mA"] @@
       "P176" :> [mul |-> 5, div |-> 1, add |-> 0, Unit |-> "km"] @@
       "P177" :> [mul |-> 5, div |-> 1, add |-> 0, Unit |-> "km"] @@
       "P197" :> [mul |-> 40, div |-> 13107, add |-> 0, Unit |-> "%"] @@
       "P206" :> [mul |-> 1, div |-> 1, add |-> 0, Unit |-> "km"] @@
       "P207" :> [mul |-> 1, div |-> 1, add |-> 0, Unit |-> "Times"] @@
       "P228" :> [mul |-> 1, div |-> 1, add |-> -1000, Unit |-> "mA"] @@
       "P229" :> [mul |-> 1, div |-> 1, add |-> 0, Unit |-> "us"] @@
       "P233" :> [mul |-> 1, div |-> 1, add |-> 0, Unit |-> "us"] @@
       "P234" :> [mul |-> 1, div |-> 256, add |-> -30, Unit |-> "mm3/st"] @@
       "P238" :> [mul |-> 1, div |-> 1, add |-> -50, Unit |-> "Nm"] @@
       "P245" :> [mul |-> 1, div |-> 100, add |-> 0, Unit |-> "g/s"]

\* bytes the ECU answers with
SampleBytes == {0, 1, 127, 128, 255}

\* binary.BigEndian.Uint32: b[3] is indexed first, a panic for a shorter slice
Uint32(b) ==
    IF Len(b) < 4 THEN [panic |-> TRUE, n |-> 0]
    ELSE [panic |-> FALSE,
          n |-> b[1] * 16777216 + b[2] * 65536 + b[3] * 256 + b[4]]

\* the transform of a decoder applied to the integer read
Transformed(d, n) == Frac(n * d.mul + d.add * d.div, d.div)

\* Parameters[id].Value(v) for a parameter of Length 2
TwoByteValue(id, v) ==
    LET d == TwoByteDecoders[id]
        r == Uint32(v)
    IN  IF r.panic THEN [panic |-> TRUE]
        ELSE [panic |-> FALSE, Value |-> Transformed(d, r.n), Unit |-> d.Unit]

\* data[addrIndex : addrIndex+param.Address.Length] with the bytes b0, b1 at
\* address and address+1: a slice of length 2
InitDecode ==
    /\ codecIn \in [id : DOMAIN TwoByteDecoders, b0 : SampleBytes, b1 : SampleBytes]
    /\ codecOut = [fn |-> "none"]
    /\ LogIdle
    /\ ConnIdle
    /\ ExtIdle

\* values[param.Id] = param.Value(data[addrIndex : addrIndex+2])
ValueCall ==
    /\ codecOut.fn = "none"
    /\ codecOut' = [fn |-> "Value",
                    out |-> TwoByteValue(codecIn.id, <<codecIn.b0, codecIn.b1>>)]
    /\ UNCHANGED codecIn
    /\ UNCHANGED <<logVars, connVars, extVars>>

NextDecode == ValueCall

SpecDecode == InitDecode /\ [][NextDecode]_vars

(***************************************************************************)
(* NextPacket applied to a line that holds stray bytes in front of a frame *)
(***************************************************************************)
\* bytes in front of the frame: none, one or two bytes that are no magic
\* byte, a magic byte, five or seven bytes without a magic byte, and a magic
\* byte among other bytes
StrayBytes == { << >>, <<129>>, <<0, 0>>, <<128>>, <<0, 0, 0, 0, 0>>,
                <<0, 0, 0, 0, 0, 0, 0>>, <<1, 128, 2>> }

InitResync ==
    /\ codecIn \in [stray : StrayBytes, frame : RespFrames, tail : Tails]
    /\ codecOut = [fn |-> "none"]
    /\ LogIdle
    /\ ConnIdle
    /\ ExtIdle

\* the bytes on the line
Line == codecIn.stray \o codecIn.frame \o codecIn.tail

NextPacketCall ==
    /\ codecOut.fn = "none"
    /\ codecOut' = [fn |-> "NextPacket", out |-> NextPacket(Line)]
    /\ UNCHANGED codecIn
    /\ UNCHANGED <<logVars, connVars, extVars>>

NextResync == NextPacketCall

SpecResync == InitResync /\ [][NextResync]_vars

(***************************************************************************)
(* NextPacket in time: readInFull starts a goroutine that fills the buffer *)
(* from the port and waits for its result, the context or a timer of       *)
(* ConnectionTotalReadTimeout, whichever comes first.  A goroutine is a    *)
(* record: the bytes it wants, the bytes it has read, its position, its    *)
(* result channel (capacity 1) and whether its readInFull still waits.     *)
(***************************************************************************)
Min(a, b) == IF a < b THEN a ELSE b

\* the response 80 F0 10 01 E8 69, alone and behind a stray byte
FrameFeeds == { <<128, 240, 16, 1, 232, 105>>, <<129, 128, 240, 16, 1, 232, 105>> }

Waiting == {"header", "rem", "payload"}

InitRead ==
    /\ rmode \in {"silent", "noise", "frame"}
    /\ feed \in (IF rmode = "frame" THEN FrameFeeds ELSE {<< >>})
    /\ wire = << >>
    /\ rctx = FALSE
    /\ npc = "idle"
    /\ hdr = << >>
    /\ rerr = "none"
    /\ timer = 0
    /\ elapsed = 0
    /\ gs = << >>
    /\ lost = 0
    /\ ncalls = 0
    /\ LogIdle
    /\ ConnIdle
    /\ PktIdle
    /\ LifeIdle
    /\ UiIdle

RemoveAt(q, i) == SubSeq(q, 1, i - 1) \o SubSeq(q, i + 1, Len(q))

\* the goroutine of the readInFull that NextPacket waits in
Current == CHOOSE i \in 1..Len(gs) : gs[i].owner

\* readInFull returns, having received the result or not: its goroutine runs
\* on unless it has finished, and a result not received stays in the channel
Abandoned(got) ==
    LET i == Current
    IN  IF gs[i].gpc = "done" THEN RemoveAt(gs, i)
        ELSE [gs EXCEPT ![i].owner = FALSE,
                        ![i].chan = IF got THEN "empty" ELSE @]

\* go func(...) of readInFull for a buffer of n bytes
Started(running, n) ==
    Append(running, [want |-> n, buf |-> << >>,
                     gpc |-> IF n > 0 THEN "wait" ELSE "sendOk",
                     chan |-> "empty", owner |-> TRUE])

\* NextPacket is called
NextPacketStart ==
    /\ npc \in {"idle", "returned"}
    /\ ncalls < MaxNextPackets
    /\ Len(gs) < MaxGoroutines
    /\ ncalls' = ncalls + 1
    /\ npc' = "header"
    /\ hdr' = << >>
    /\ rerr' = "none"
    /\ timer' = 0
    /\ elapsed' = 0
    /\ gs' = Started(gs, PacketHeaderSize)
    /\ UNCHANGED <<rmode, feed, wire, rctx, lost>>
    /\ UNCHANGED <<logVars, connVars, pktVars, lifeVars, uiVars>>

\* NextPacket returns err
Returns(err, got) ==
    /\ npc' = "returned"
    /\ rerr' = err
    /\ gs' = Abandoned(got)
    /\ UNCHANGED <<hdr, timer>>

\* case <-ctx.Done(): return ctx.Err()
SelectCtx ==
    /\ npc \in Waiting
    /\ rctx
    /\ Returns("ctx", FALSE)
    /\ UNCHANGED <<rmode, feed, wire, rctx, elapsed, lost, ncalls>>
    /\ UNCHANGED <<logVars, connVars, pktVars, lifeVars, uiVars>>

\* case <-time.NewTimer(ConnectionTotalReadTimeout).C: return ErrReadTimeout
SelectTimer ==
    /\ npc \in Waiting
    /\ timer = TotalReadTimeoutTicks
    /\ Returns("ErrReadTimeout", FALSE)
    /\ UNCHANGED <<rmode, feed, wire, rctx, elapsed, lost, ncalls>>
    /\ UNCHANGED <<logVars, connVars, pktVars, lifeVars, uiVars>>

\* NextPacket goes on to the readInFull of n bytes for the next part
GoesOn(part, header, n) ==
    /\ Len(Abandoned(TRUE)) < MaxGoroutines
    /\ npc' = part
    /\ hdr' = header
    /\ timer' = 0
    /\ gs' = Started(Abandoned(TRUE), n)
    /\ UNCHANGED rerr

\* case r := <-result: return r.err, and what NextPacket does with the bytes
SelectResult ==
    /\ npc \in Waiting
    /\ gs[Current].chan # "empty"
    /\ LET r == gs[Current].chan
           b == gs[Current].buf
       IN  IF r # "nil" THEN Returns(r, TRUE)
           ELSE IF npc = "header" THEN
             IF validateHeader(b) = "nil" THEN GoesOn("payload", b, b[4])
             ELSE IF b[1] = PacketMagicByte THEN Returns("invalid packet header", TRUE)
             ELSE IF MagicIndex(b) = 0 THEN GoesOn("header", << >>, PacketHeaderSize)
             ELSE GoesOn("rem", SubSeq(b, MagicIndex(b), PacketHeaderSize),
                         MagicIndex(b) - 1)
           ELSE IF npc = "rem" THEN
             IF validateHeader(hdr \o b) = "nil"
               THEN GoesOn("payload", hdr \o b, (hdr \o b)[4])
               ELSE Returns("invalid packet header", TRUE)
           ELSE IF ChecksumMatches(hdr \o b) THEN Returns("nil", TRUE)
           ELSE Returns("ErrInvalidChecksumByte", TRUE)
    /\ UNCHANGED <<rmode, feed, wire, rctx, elapsed, lost, ncalls>>
    /\ UNCHANGED <<logVars, connVars, pktVars, lifeVars, uiVars>>

\* the clock ticks while a readInFull waits; its timer fires at
\* TotalReadTimeoutTicks, so no tick passes it
Tick ==
    /\ npc \in Waiting
    /\ timer < TotalReadTimeoutTicks
    /\ timer' = timer + 1
    /\ elapsed' = Min(elapsed + 1, TotalReadTimeoutTicks + 1)
    /\ UNCHANGED <<rmode, feed, wire, rctx, npc, hdr, rerr, gs, lost, ncalls>>
    /\ UNCHANGED <<logVars, connVars, pktVars, lifeVars, uiVars>>

\* a byte arrives at the port
Arrive ==
    /\ Len(wire) < MaxWire
    /\ \/ rmode = "noise" /\ wire' = Append(wire, 0) /\ UNCHANGED feed
       \/ rmode = "frame" /\ feed # << >>
            /\ wire' = Append(wire, Head(feed)) /\ feed' = Tail(feed)
    /\ UNCHANGED <<rmode, rctx, npc, hdr, rerr, timer, elapsed, gs, lost, ncalls>>
    /\ UNCHANGED <<logVars, connVars, pktVars, lifeVars, uiVars>>

\* the owner of the context cancels it
CancelRead ==
    /\ ~rctx
    /\ ncalls > 0
    /\ rctx' = TRUE
    /\ UNCHANGED <<rmode, feed, wire, npc, hdr, rerr, timer, elapsed, gs, lost, ncalls>>
    /\ UNCHANGED <<logVars, connVars, pktVars, lifeVars, uiVars>>

GoroutineStep(i, next) ==
    /\ gs' = [gs EXCEPT ![i] = next]
    /\ UNCHANGED <<rmode, feed, wire, rctx, npc, hdr, rerr, timer, elapsed, lost, ncalls>>
    /\ UNCHANGED <<logVars, connVars, pktVars, lifeVars, uiVars>>

\* waitForNBytesToTransfer: the timer fires, or the context is done and the
\* goroutine goes on to send the error
WaitForNBytes(i) ==
    /\ gs[i].gpc = "wait"
    /\ \/ GoroutineStep(i, [gs[i] EXCEPT !.gpc = "read"])
       \/ rctx /\ GoroutineStep(i, [gs[i] EXCEPT !.gpc = "sendCtx"])

\* result <- readResult{readCount, err} after waitForNBytesToTransfer failed:
\* there is no return, the goroutine goes on to Read
SendCtxErr(i) ==
    /\ gs[i].gpc = "sendCtx"
    /\ gs[i].chan = "empty"
    /\ GoroutineStep(i, [gs[i] EXCEPT !.gpc = "read", !.chan = "ctx"])

\* after count, err := c.serialPort.Read(b[readCount:]) returned the bytes
\* taken: the loop goes on or ends
AfterRead(g, taken) ==
    LET buf == g.buf \o taken
    IN  [g EXCEPT !.buf = buf,
                  !.gpc = IF Len(buf) < g.want THEN "wait" ELSE "sendOk"]

\* Read returns the bytes that are there, as many as the buffer takes
Read(i) ==
    /\ gs[i].gpc = "read"
    /\ wire # << >>
    /\ LET n == Min(Len(wire), gs[i].want - Len(gs[i].buf))
       IN  /\ gs' = [gs EXCEPT ![i] = AfterRead(gs[i], SubSeq(wire, 1, n))]
           /\ wire' = SubSeq(wire, n + 1, Len(wire))
           /\ lost' = IF gs[i].owner THEN lost ELSE Min(lost + n, MaxLost)
    /\ UNCHANGED <<rmode, feed, rctx, npc, hdr, rerr, timer, elapsed, ncalls>>
    /\ UNCHANGED <<logVars, connVars, pktVars, lifeVars, uiVars>>

\* Read returns (0, nil) when the read timeout of the port passes without a
\* byte, or (0, err) when the port fails
ReadNothing(i, failed) ==
    /\ gs[i].gpc = "read"
    /\ wire = << >>
    /\ GoroutineStep(i, [gs[i] EXCEPT !.gpc = IF failed THEN "sendErr" ELSE "wait"])

\* result <- readResult{readCount, err}; return  and
\* result <- readResult{readCount, nil}: a send needs room in the channel;
\* the goroutine ends, and is forgotten unless its readInFull still waits
SendAndReturn(i) ==
    /\ gs[i].gpc \in {"sendErr", "sendOk"}
    /\ gs[i].chan = "empty"
    /\ gs' = IF gs[i].owner
               THEN [gs EXCEPT ![i].gpc = "done",
                               ![i].chan = IF gs[i].gpc = "sendOk" THEN "nil"
                                           ELSE "stream error"]
               ELSE RemoveAt(gs, i)
    /\ UNCHANGED <<rmode, feed, wire, rctx, npc, hdr, rerr, timer, elapsed, lost, ncalls>>
    /\ UNCHANGED <<logVars, connVars, pktVars, lifeVars, uiVars>>

NextRead ==
    \/ NextPacketStart
    \/ SelectCtx
    \/ SelectTimer
    \/ SelectResult
    \/ Tick
    \/ Arrive
    \/ CancelRead
    \/ \E i \in 1..Len(gs) : WaitForNBytes(i)
    \/ \E i \in 1..Len(gs) : SendCtxErr(i)
    \/ \E i \in 1..Len(gs) : Read(i)
    \/ \E i \in 1..Len(gs) : \E failed \in BOOLEAN : ReadNothing(i, failed)
    \/ \E i \in 1..Len(gs) : SendAndReturn(i)

SpecRead == InitRead /\ [][NextRead]_vars

(***************************************************************************)
(* logger-ui: the logging is suspended while the DTCs are read             *)
(* (tab_dtcs.go, tab_parameters.go, app.go)                                *)
(*                                                                         *)
(* The callbacks of the UI run one at a time; every openLoggingSession is  *)
(* a goroutine of its own.  A session is a record:                         *)
(*   ctxDone  its context has been cancelled                               *)
(*   spc      "open" in the loop that calls ssm2.LoggingSession, "range"   *)
(*            while it ranges over the session channel (processPackets     *)
(*            runs), "signal" at the send on doneLogging, "end" after it,  *)
(*            "panicked" when LoggingSession was called on a nil           *)
(*            connection                                                   *)
(*   conn     the connection LoggingSession was given                      *)
(*   stale    the connections on which a goroutine started by one of its   *)
(*            readInFull calls is still in serialPort.Read                 *)
(*   ch       the channel the send on doneLogging uses                     *)
(*   tries    history: the calls of LoggingSession that failed, modulo 2   *)
(*   by       the caller of EnableLogging                                  *)
(*   after    the calls of readDTCs when EnableLogging ran                 *)
(***************************************************************************)
UiWaiting == {"refresh_wait", "update_wait"}

DtcReading == {"dtc_set_reading", "dtc_stored_reading"}

\* the application starts without a connection and without a session
InitUi ==
    /\ connection = 0
    /\ opened = 0
    /\ cancelLogging = 0
    /\ doneLogging = 0
    /\ sessions = << >>
    /\ upc = "idle"
    /\ waitCh = 0
    /\ dtcReads = << >>
    /\ LogIdle
    /\ ConnIdle
    /\ PktIdle
    /\ LifeIdle
    /\ ReadIdle

\* a nil connection handed to LoggingSession ends the program
Alive == \A i \in 1..Len(sessions) : sessions[i].spc # "panicked"

\* context.WithCancel's cancel function
Cancelled(ss, i) == [ss EXCEPT ![i].ctxDone = TRUE]

\* DisableLogging: cancel and wait for doneLogging when a session is
\* registered, else go on at once
DisableLogging(wait, next) ==
    IF cancelLogging # 0
      THEN /\ sessions' = Cancelled(sessions, cancelLogging)
           /\ cancelLogging' = 0
           /\ waitCh' = doneLogging
           /\ upc' = wait
      ELSE /\ upc' = next
           /\ UNCHANGED <<sessions, cancelLogging, waitCh>>

\* EnableLogging, on the sessions ss: a new context, a new channel and a new
\* goroutine
EnableLogging(ss, by) ==
    /\ Len(ss) < MaxSessions
    /\ sessions' = Append(ss, [ctxDone |-> FALSE, spc |-> "open", conn |-> 0,
                               stale |-> {}, ch |-> 0, tries |-> 0,
                               by |-> by,
                               after |-> dtcReads])
    /\ cancelLogging' = Len(ss) + 1
    /\ doneLogging' = Len(ss) + 1

\* DTCsTab.refresh up to the wait in DisableLogging (it returns at once
\* without a connection)
refresh ==
    /\ Alive
    /\ upc = "idle"
    /\ connection # 0
    /\ DisableLogging("refresh_wait", "dtc_set")
    /\ dtcReads' = << >>
    /\ UNCHANGED <<connection, opened, doneLogging>>
    /\ UNCHANGED <<logVars, connVars, pktVars, lifeVars, readVars>>

\* <-t.doneLogging meets the send of session i on the same channel
ReceiveDone(i) ==
    /\ Alive
    /\ upc \in UiWaiting
    /\ sessions[i].spc = "signal"
    /\ sessions[i].ch = waitCh
    /\ sessions' = [sessions EXCEPT ![i].spc = "end"]
    /\ upc' = (IF upc = "refresh_wait" THEN "dtc_set" ELSE "update_rest")
    /\ waitCh' = 0
    /\ UNCHANGED <<connection, opened, cancelLogging, doneLogging, dtcReads>>
    /\ UNCHANGED <<logVars, connVars, pktVars, lifeVars, readVars>>

\* readDTCs: ssm2.ReadSetDTCs or ssm2.ReadStoredDTCs sends its first request
readDTCs ==
    /\ Alive
    /\ upc \in {"dtc_set", "dtc_stored"}
    /\ upc' = (IF upc = "dtc_set" THEN "dtc_set_reading" ELSE "dtc_stored_reading")
    /\ dtcReads' = Append(dtcReads, "reading")
    /\ UNCHANGED <<connection, opened, cancelLogging, doneLogging, sessions, waitCh>>
    /\ UNCHANGED <<logVars, connVars, pktVars, lifeVars, readVars>>

\* ssm2.ReadSetDTCs / ssm2.ReadStoredDTCs: the read-block request pair over
\* the connection has been answered, or has failed within the minute
ReadDTCsReturns(err) ==
    /\ Alive
    /\ upc \in DtcReading
    /\ upc' = (IF upc = "dtc_set_reading" /\ ~err THEN "dtc_stored"
                                                 ELSE "refresh_enable")
    /\ dtcReads' = [dtcReads EXCEPT ![Len(dtcReads)] =
                       IF err THEN "error" ELSE "returned"]
    /\ UNCHANGED <<connection, opened, cancelLogging, doneLogging, sessions, waitCh>>
    /\ UNCHANGED <<logVars, connVars, pktVars, lifeVars, readVars>>

\* refresh returns: the deferred EnableLogging runs
RefreshReturns ==
    /\ Alive
    /\ upc = "refresh_enable"
    /\ EnableLogging(sessions, "refresh")
    /\ upc' = "idle"
    /\ UNCHANGED <<connection, opened, waitCh, dtcReads>>
    /\ UNCHANGED <<logVars, connVars, pktVars, lifeVars, readVars>>

\* updateLiveLogParameters up to the wait in DisableLogging
updateLiveLogParameters ==
    /\ Alive
    /\ upc = "idle"
    /\ connection # 0
    /\ DisableLogging("update_wait", "update_rest")
    /\ UNCHANGED <<connection, opened, doneLogging, dtcReads>>
    /\ UNCHANGED <<logVars, connVars, pktVars, lifeVars, readVars>>

\* updateLiveLogParameters after DisableLogging: logging is enabled when a
\* connection exists and some parameter is shown live (models)
UpdateRest(models) ==
    /\ Alive
    /\ upc = "update_rest"
    /\ upc' = "idle"
    /\ IF connection # 0 /\ models
         THEN EnableLogging(sessions, "update")
         ELSE UNCHANGED <<sessions, cancelLogging, doneLogging>>
    /\ UNCHANGED <<connection, opened, waitCh, dtcReads>>
    /\ UNCHANGED <<logVars, connVars, pktVars, lifeVars, readVars>>

\* App.OnNewConnection: stores the connection and runs
\* updateLiveLogParameters
OnNewConnection ==
    /\ Alive
    /\ upc = "idle"
    /\ connection = 0
    /\ opened < MaxConnections
    /\ opened' = opened + 1
    /\ connection' = opened + 1
    /\ DisableLogging("update_wait", "update_rest")
    /\ UNCHANGED <<doneLogging, dtcReads>>
    /\ UNCHANGED <<logVars, connVars, pktVars, lifeVars, readVars>>

\* App.OnDisconnect: cancels without waiting for doneLogging, closes and
\* forgets the connection; its updateLiveLogParameters then finds neither a
\* session to cancel nor a connection
OnDisconnect ==
    /\ Alive
    /\ upc = "idle"
    /\ connection # 0
    /\ sessions' = (IF cancelLogging # 0 THEN Cancelled(sessions, cancelLogging)
                                         ELSE sessions)
    /\ cancelLogging' = 0
    /\ connection' = 0
    /\ UNCHANGED <<opened, doneLogging, upc, waitCh, dtcReads>>
    /\ UNCHANGED <<logVars, connVars, pktVars, lifeVars, readVars>>

\* openLoggingSession, one turn of its first loop: LoggingSession is called
\* with the connection of that moment.  A call that failed is repeated,
\* whatever the context says, and may have left a goroutine of readInFull in
\* Read (left)
LoggingSessionCall(i, ok, left) ==
    /\ Alive
    /\ sessions[i].spc = "open"
    /\ sessions' =
         IF connection = 0 THEN [sessions EXCEPT ![i].spc = "panicked"]
         ELSE IF ok THEN [sessions EXCEPT ![i].spc = "range",
                                          ![i].conn = connection]
         ELSE [sessions EXCEPT ![i].stale =
                   IF left THEN @ \cup {connection} ELSE @,
                               ![i].tries = 1 - @]
    /\ UNCHANGED <<connection, opened, cancelLogging, doneLogging, upc, waitCh,
                   dtcReads>>
    /\ UNCHANGED <<logVars, connVars, pktVars, lifeVars, readVars>>

\* openLoggingSession from the end of `range session` to the send on
\* doneLogging: processPackets closed the channel because the context was
\* cancelled or because it counted three errors; the NextPacket that was
\* interrupted may have left a goroutine of readInFull in Read (left); the
\* send uses the channel the field holds now
SessionClosed(i, cause, left) ==
    /\ Alive
    /\ sessions[i].spc = "range"
    /\ cause = "ctx" => sessions[i].ctxDone
    /\ sessions' = [sessions EXCEPT ![i].spc = "signal",
                                    ![i].ch = doneLogging,
                                    ![i].stale =
                       IF left THEN @ \cup {sessions[i].conn} ELSE @]
    /\ UNCHANGED <<connection, opened, cancelLogging, doneLogging, upc, waitCh,
                   dtcReads>>
    /\ UNCHANGED <<logVars, connVars, pktVars, lifeVars, readVars>>

\* a goroutine left in Read has read what it waited for, or the port has
\* been closed: it puts its result in its channel and ends
StaleReaderEnds(i, c) ==
    /\ Alive
    /\ c \in sessions[i].stale
    /\ sessions' = [sessions EXCEPT ![i].stale = @ \ {c}]
    /\ UNCHANGED <<connection, opened, cancelLogging, doneLogging, upc, waitCh,
                   dtcReads>>
    /\ UNCHANGED <<logVars, connVars, pktVars, lifeVars, readVars>>

NextUi ==
    \/ refresh
    \/ \E i \in 1..Len(sessions) : ReceiveDone(i)
    \/ readDTCs
    \/ \E err \in BOOLEAN : ReadDTCsReturns(err)
    \/ RefreshReturns
    \/ updateLiveLogParameters
    \/ \E models \in BOOLEAN : UpdateRest(models)
    \/ OnNewConnection
    \/ OnDisconnect
    \/ \E i \in 1..Len(sessions), ok \in BOOLEAN, left \in BOOLEAN :
          LoggingSessionCall(i, ok, left)
    \/ \E i \in 1..Len(sessions), cause \in {"ctx", "errors"}, left \in BOOLEAN :
          SessionClosed(i, cause, left)
    \/ \E i \in 1..Len(sessions), c \in 1..MaxConnections + 1 :
          StaleReaderEnds(i, c)

SpecUi == InitUi /\ [][NextUi]_vars

\* what the goroutine of session i does
SessionStep(i) ==
    /\ i <= Len(sessions)
    /\ \/ \E ok \in BOOLEAN, left \in BOOLEAN : LoggingSessionCall(i, ok, left)
       \/ \E cause \in {"ctx", "errors"}, left \in BOOLEAN : SessionClosed(i, cause, left)
       \/ ReceiveDone(i)

\* every goroutine that can run does run; nothing obliges a call of
\* LoggingSession to succeed
SpecUiFair == SpecUi /\ \A i \in 1..MaxSessions : WF_vars(SessionStep(i))

(***************************************************************************)
(* logger-ui: the consumer of the session channel                          *)
(* (tab_parameters.go, openLoggingSession, the body of `range session`)    *)
(*                                                                         *)
(* A frame is a function from ids to ParameterValues; the subscriptions    *)
(* are a function from ids to the Unit of the LoggedParam.  The body reads *)
(* lp.Unit twice, without the lock, while the Select of the parameters tab *)
(* may write it: seen is what the comparison reads, reread what the call   *)
(* of ConvertTo reads.                                                     *)
(***************************************************************************)
PipeIds == {"P8", "P9"}

PipeUnits == {"mph", "km/h", "AFR"}

PipeValues == {[Value |-> <<25, 1>>, Unit |-> "mph"],
               [Value |-> <<147, 10>>, Unit |-> "AFR"]}

FunctionsOnSubsets(S, T) == UNION {[D -> T] : D \in SUBSET S}

InitPipe ==
    /\ codecIn \in {in \in [result : FunctionsOnSubsets(PipeIds, PipeValues),
                            seen : FunctionsOnSubsets(PipeIds, PipeUnits),
                            reread : FunctionsOnSubsets(PipeIds, PipeUnits),
                            processors : 0..MaxProcessors] :
                       DOMAIN in.seen = DOMAIN in.reread}
    /\ codecOut = [fn |-> "none"]
    /\ LogIdle
    /\ ConnIdle
    /\ ExtIdle

ConvertedFrameTaggingAlways(result, seen, reread) ==
    [id \in DOMAIN result |->
        IF id \notin DOMAIN seen \/ seen[id] = result[id].Unit
          THEN result[id]
          ELSE LET r == ConvertTo(result[id], reread[id])
               IN  IF r.err # "nil"
                     THEN [Value |-> result[id].Value, Unit |-> reread[id]]
                     ELSE r.pv]

\* the conversion of one frame to the configured units
ConvertedFrame(result, seen, reread) ==
    [id \in DOMAIN result |->
        IF id \notin DOMAIN seen \/ seen[id] = result[id].Unit
          THEN result[id]
          ELSE LET r == ConvertTo(result[id], reread[id])
               IN  IF r.err # "nil" THEN result[id] ELSE r.pv]

\* one turn of `for result := range session`: the conversion, then every
\* logging processor is called with the map
ConsumeFrame ==
    /\ codecOut.fn = "none"
    /\ codecOut' = [fn |-> "openLoggingSession",
                    delivered |->
                       [k \in 1..codecIn.processors |->
                           ConvertedFrame(codecIn.result, codecIn.seen,
                                          codecIn.reread)]]
    /\ UNCHANGED codecIn
    /\ UNCHANGED <<logVars, connVars, extVars>>

SpecPipe == InitPipe /\ [][ConsumeFrame]_vars

(***************************************************************************)
(* Address.Add applied on its own (parameters_test.go, logging.go)         *)
(***************************************************************************)
SampleAddresses == { <<0, 0, 0>>, <<16, 79, 58>>, <<31, 255, 255>>, <<255, 255, 255>>,
                     <<0, 0, 255>>, <<0, 255, 255>>, <<255, 0, 0>>, <<18, 52, 86>> }

SampleIncrements == {0, 1, 2, 3, 36, 255, 256, 65536, 16777215}

InitAddr ==
    /\ codecIn \in [a : SampleAddresses, i : SampleIncrements]
    /\ codecOut = [fn |-> "none"]
    /\ LogIdle
    /\ ConnIdle
    /\ ExtIdle

\* a.Add(i)
AddCall ==
    /\ codecOut.fn = "none"
    /\ codecOut' = [fn |-> "Add", out |-> AddressAdd(codecIn.a, codecIn.i)]
    /\ UNCHANGED codecIn
    /\ UNCHANGED <<logVars, connVars, extVars>>

SpecAddr == InitAddr /\ [][AddCall]_vars

(***************************************************************************)
(* The lists of a session: LoggedParams.CurrentLists (logger-ui) and the   *)
(* maps processPackets hands to the derived expressions (logging.go)       *)
(***************************************************************************)
\* ids the parameters tab offers on an ECU that supports P7, P8, P11 and P12
\* (P200 and P242 are then available)
Subscribable == {"P7", "P8", "P11", "P12", "P200", "P242"}

DerivedIds == { d.Id : d \in DerivedParameters }

InitLists ==
    /\ codecIn \in [subscribed : SUBSET Subscribable]
    /\ codecOut = [fn |-> "none"]
    /\ LogIdle
    /\ ConnIdle
    /\ ExtIdle

\* LoggedParams.CurrentLists: order is the order in which the range over the
\* copied map meets the ids; a derived id gives ssm2.DerivedParameters[id],
\* any other ssm2.Parameters[id]
CurrentLists(order) ==
    LET prim(id) == id \notin DerivedIds
        der(id) == id \in DerivedIds
        ps == SelectSeq(order, prim)
        ds == SelectSeq(order, der)
    IN  [params |-> [i \in 1..Len(ps) |-> CHOOSE q \in Parameters : q.Id = ps[i]],
         derived |-> [i \in 1..Len(ds) |-> CHOOSE d \in DerivedParameters : d.Id = ds[i]]]

\* params, derivedParams = t.app.loggedParams.CurrentLists()
CurrentListsCall ==
    /\ codecOut.fn = "none"
    /\ \E order \in IterationOrders(codecIn.subscribed) :
          codecOut' = [fn |-> "CurrentLists", lists |-> CurrentLists(order)]
    /\ UNCHANGED codecIn
    /\ UNCHANGED <<logVars, connVars, extVars>>

\* processPackets on one frame for these lists: for every derived parameter
\* the keys of the map `values` at the call of its Value
ValuesOfFrame ==
    /\ codecOut.fn = "CurrentLists"
    /\ LET ps == codecOut.lists.params
           ds == codecOut.lists.derived
       IN  codecOut' = [fn |-> "values", lists |-> codecOut.lists,
                        keys |-> [j \in 1..Len(ds) |->
                                    DOMAIN WithDerived(PrimitiveEntries(ps, 0),
                                                       SubSeq(ds, 1, j - 1), {})]]
    /\ UNCHANGED codecIn
    /\ UNCHANGED <<logVars, connVars, extVars>>

NextLists ==
    \/ CurrentListsCall
    \/ ValuesOfFrame

SpecLists == InitLists /\ [][NextLists]_vars

(***************************************************************************)
(* LoggedParams (logger-ui): a map from ids to pointers to LoggedParam.    *)
(* codecIn is the store: heap holds the LoggedParam objects, data maps an  *)
(* id to the index of its object in heap.  codecOut is the map CopyData    *)
(* returned, with the subscriptions it showed at that moment.              *)
(***************************************************************************)
StoreKeys == {"P8", "P9"}

StoreUnits == {"mph", "km/h"}

LoggedParam == [LogToFile : BOOLEAN, LiveLog : BOOLEAN, Unit : StoreUnits]

\* the changes the closures of the parameters tab make to a LoggedParam
Changes == {"LogToFile = true", "LogToFile = false", "LiveLog = true", "LiveLog = false"}

Changed(lp, change) ==
    IF change = "LogToFile = true" THEN [lp EXCEPT !.LogToFile = TRUE]
    ELSE IF change = "LogToFile = false" THEN [lp EXCEPT !.LogToFile = FALSE]
    ELSE IF change = "LiveLog = true" THEN [lp EXCEPT !.LiveLog = TRUE]
    ELSE [lp EXCEPT !.LiveLog = FALSE]

\* NewLoggedParams(data): every id has an object of its own
InitStore ==
    /\ codecIn \in { [heap |-> h, data |-> [k \in D |-> IF k = "P8" THEN 1 ELSE Len(h)],
                      ops |-> 0, panicked |-> FALSE] :
                        D \in SUBSET StoreKeys \ {{}},
                        h \in UNION { [1..n -> LoggedParam] : n \in 1..2 } } 
    /\ Len(codecIn.heap) = Cardinality(DOMAIN codecIn.data)
    /\ codecOut = [fn |-> "none"]
    /\ LogIdle
    /\ ConnIdle
    /\ ExtIdle

\* another operation on the store may run
StoreRuns ==
    /\ ~codecIn.panicked
    /\ codecIn.ops < MaxStoreOps

\* LoggedParams.CopyData: a new map with the same pointers
CopyData ==
    /\ StoreRuns
    /\ codecOut.fn = "none"
    /\ codecOut' = [fn |-> "CopyData",
                    m |-> codecIn.data,
                    seen |-> [k \in DOMAIN codecIn.data |-> codecIn.heap[codecIn.data[k]]]]
    /\ codecIn' = [codecIn EXCEPT !.ops = @ + 1]
    /\ UNCHANGED <<logVars, connVars, extVars>>

\* LoggedParams.Remove: delete(p.data, key)
Remove(key) ==
    /\ StoreRuns
    /\ codecIn' = [codecIn EXCEPT !.ops = @ + 1,
                                  !.data = [k \in DOMAIN @ \ {key} |-> @[k]]]
    /\ UNCHANGED codecOut
    /\ UNCHANGED <<logVars, connVars, extVars>>

\* LoggedParams.Update: update(p.data[key]); the closure writes a field of
\* the object, and dereferences nil when the key is missing
Update(key, change) ==
    /\ StoreRuns
    /\ codecIn' = IF key \in DOMAIN codecIn.data
                    THEN [codecIn EXCEPT !.ops = @ + 1,
                                         !.heap[codecIn.data[key]] = Changed(@, change)]
                    ELSE [codecIn EXCEPT !.ops = @ + 1, !.panicked = TRUE]
    /\ UNCHANGED codecOut
    /\ UNCHANGED <<logVars, connVars, extVars>>

\* LoggedParams.UpdateOrAdd: update(p.data[key]) when the key is there, else
\* p.data[key] = add
UpdateOrAdd(key, change, add) ==
    /\ StoreRuns
    /\ codecIn' = IF key \in DOMAIN codecIn.data
                    THEN [codecIn EXCEPT !.ops = @ + 1,
                                         !.heap[codecIn.data[key]] = Changed(@, change)]
                    ELSE [codecIn EXCEPT !.ops = @ + 1,
                                         !.heap = Append(@, add),
                                         !.data = [k \in DOMAIN @ \cup {key} |->
                                                     IF k = key THEN Len(codecIn.heap) + 1
                                                     ELSE @[k]]]
    /\ UNCHANGED codecOut
    /\ UNCHANGED <<logVars, connVars, extVars>>

\* lp := t.app.loggedParams.Get(param.Id); if lp != nil { lp.Unit = ... }
WriteThroughGet(key, unit) ==
    /\ StoreRuns
    /\ codecIn' = IF key \in DOMAIN codecIn.data
                    THEN [codecIn EXCEPT !.ops = @ + 1,
                                         !.heap[codecIn.data[key]].Unit = unit]
                    ELSE [codecIn EXCEPT !.ops = @ + 1]
    /\ UNCHANGED codecOut
    /\ UNCHANGED <<logVars, connVars, extVars>>

NextStore ==
    \/ CopyData
    \/ \E key \in StoreKeys : Remove(key)
    \/ \E key \in StoreKeys, change \in Changes : Update(key, change)
    \/ \E key \in StoreKeys, change \in Changes, add \in LoggedParam :
          UpdateOrAdd(key, change, add)
    \/ \E key \in StoreKeys, unit \in StoreUnits : WriteThroughGet(key, unit)

SpecStore == InitStore /\ [][NextStore]_vars

(***************************************************************************)
(* Claims about the logging session                                        *)
(***************************************************************************)
RECURSIVE TrailingErrs(_)
TrailingErrs(s) ==
    IF s = << >> \/ s[Len(s)] # "err" THEN 0
    ELSE 1 + TrailingErrs(SubSeq(s, 1, Len(s) - 1))

\* C1: while the context is not cancelled, the output stream is closed exactly
\* when the last three outcomes of NextPacket are failures; errCount is the
\* number of failures since the last successfully read frame, so a frame
\* resets it to zero and fewer than three consecutive failures leave the
\* stream open.
C1_ClosedIffThreeConsecutiveFailures ==
    /\ ~ctxDone =>
          (closed <=> (Len(recent) = 3 /\ \A i \in 1..3 : recent[i] = "err"))
    /\ errCount = TrailingErrs(recent)
    /\ (pc = "publish" => errCount = 0)

\* C1 witness: closed by three failures in a row, without cancellation, in a
\* session that had published frames (and so had reset the counter) before.
C1_Witness ==
    /\ closed /\ ~ctxDone /\ errCount = 3
    /\ Len(sent) >= 1

\* C2: after the context of a running session is cancelled, processPackets
\* eventually closes the output stream, whatever the consumer does (runs in
\* which decoding a frame has ended the program are left aside).
C2_CancelEventuallyCloses ==
    (ctxDone /\ pc \in {"select", "read", "publish"})
        ~> (closed \/ pc = "panicked")

\* C3: once the context is cancelled no further map is sent on the stream.
C3_NoSendAfterCancel == sentAfterCancel = 0

\* C4: the frames NextPacket returned without error are exactly the maps
\* sent, once each and in arrival order, but for the one the producer is about
\* to send; what was sent is what the consumer received followed by what is
\* buffered; and the buffer never holds more than its capacity, which is at
\* least 5.
C4_PublishedOnceInOrder ==
    /\ sent = [i \in 1..Len(sent) |-> i]
    /\ Len(sent) = IF pc = "publish" THEN nframes - 1 ELSE nframes
    /\ (pc = "publish" => values = nframes)
    /\ sent = received \o results
    /\ Len(results) <= ResultsCap
    /\ ResultsCap >= 5

\* the ids of a list of parameters
Ids(ps) == { ps[i].Id : i \in 1..Len(ps) }

\* the sum of the declared lengths of the parameters in front of the i-th
RECURSIVE LengthsBefore(_, _)
LengthsBefore(ps, i) ==
    IF i <= 1 THEN 0 ELSE LengthsBefore(ps, i - 1) + ps[i - 1].Length

\* C17: the map processPackets publishes for a frame holds, for every
\* requested primitive, one entry decoded from the bytes of that frame's data
\* at the offsets the declared lengths give in request order, and one entry
\* for exactly the requested derived parameters whose expression returned no
\* error, and nothing else; it has len(params) + len(derived) entries when no
\* expression failed.
C17_PublishedMapComplete ==
    pc = "publish" =>
      /\ \A i \in 1..Len(params) :
            /\ params[i].Id \in DOMAIN entries
            /\ entries[params[i].Id].kind = "primitive"
            /\ entries[params[i].Id].from = LengthsBefore(params, i)
            /\ entries[params[i].Id].to = LengthsBefore(params, i) + params[i].Length
            /\ entries[params[i].Id].to <= frame.dataLen
      /\ \A j \in 1..Len(derived) :
            derived[j].Id \in DOMAIN entries <=> derived[j].Id \notin frame.failed
      /\ DOMAIN entries \subseteq Ids(params) \cup Ids(derived)
      /\ (frame.failed = {} =>
            Cardinality(DOMAIN entries) = Len(params) + Len(derived))

\* the 24-bit number an address stands for
AddressValue(a) == a[1] * 65536 + a[2] * 256 + a[3]

\* C18: LoggingSession calls SendReadAddressesRequest exactly once, with
\* continuous = true and, for each requested primitive in order, the addresses
\* base, base+1, ..., base+length-1; the response to it is never published
\* (only frames read afterwards are); and when the request fails the session
\* returns the error and has no stream and no reader: nothing is read, sent
\* or closed.
C18_OneContinuousRequest ==
    /\ (pc = "start" => requests = << >>)
    /\ (pc # "start" =>
          /\ Len(requests) = 1
          /\ requests[1].continous = TRUE
          /\ Len(requests[1].addresses) = LengthsBefore(params, Len(params) + 1)
          /\ \A i \in 1..Len(params) : \A k \in 0..(params[i].Length - 1) :
                AddressValue(requests[1].addresses[LengthsBefore(params, i) + k + 1])
                  = AddressValue(params[i].Address) + k
          /\ (requests[1].outcome # "packet" =>
                /\ pc = "failed"
                /\ results = << >> /\ sent = << >> /\ ~closed /\ nframes = 0))
    /\ Len(sent) <= nframes
    /\ \A i \in 1..Len(sent) : sent[i] \in 1..nframes

\* C19: when the expression of a derived parameter returns an error for a
\* frame, the map to publish holds every requested primitive and every derived
\* parameter whose expression did not fail, only the failed ones are missing,
\* the map is the one about to be sent for that frame, and errCount stays 0.
C19_DerivedErrorOmitsOnlyThatParameter ==
    (pc = "publish" /\ frame.failed # {}) =>
      /\ DOMAIN entries = Ids(params) \cup (Ids(derived) \ frame.failed)
      /\ \A i \in 1..Len(params) : entries[params[i].Id].kind = "primitive"
      /\ \A j \in 1..Len(derived) :
            derived[j].Id \notin frame.failed => entries[derived[j].Id].kind = "derived"
      /\ values = nframes
      /\ errCount = 0

\* C19 witness: a frame is about to be published for which the first derived
\* expression failed and the second, evaluated after it, did not.
C19_Witness ==
    /\ pc = "publish"
    /\ derived = <<Custom1, P200>>
    /\ frame.failed = {"D1"}
    /\ "P200" \in DOMAIN entries
    /\ Len(sent) >= 1

\* C34: the channel results is closed at most once and nothing is sent on
\* it afterwards: a step in which processPackets ends (it ends by closing)
\* starts with the channel open, and once the channel is closed
\* processPackets takes no step and nothing is added to the channel, whether
\* the context was cancelled, the third error in a row came, or both
C34_ClosedOnceAndNeverSentAfter ==
    [][ /\ (pc' = "done" /\ pc # "done") => (~closed /\ closed')
        /\ closed => /\ closed'
                     /\ pc' = pc
                     /\ sent' = sent
                     /\ Len(results') <= Len(results) ]_vars

\* closed by the third error in a row while the context is cancelled too,
\* after a map was sent
C34_Witness ==
    /\ closed
    /\ pc = "done"
    /\ ctxDone
    /\ errCount = MaxErrCount
    /\ sent # << >>

\* C35: the session never reads outside the data of a frame: a frame whose
\* data is shorter than the lengths of the requested primitives together is
\* not decoded (it counts as a failed frame), and no frame that NextPacket
\* returned without an error crashes the reader
C35_NoReadOutsideFrameData ==
    /\ ~(pc = "panicked" /\ nframes > 0)
    /\ pc = "publish" =>
          /\ frame.dataLen >= LengthsBefore(params, Len(params) + 1)
          /\ \A id \in DOMAIN entries :
                entries[id].kind = "primitive" => entries[id].to <= frame.dataLen

(***************************************************************************)
(* Claims about the connection                                             *)
(***************************************************************************)
\* the conditions on a header, spelled out
HeaderAccepted(b) ==
    /\ Len(b) = 5
    /\ b[1] = 128
    /\ b[2] \in {16, 24, 240, 242}
    /\ b[3] \in {16, 24, 240, 242}
    /\ b[5] \in {160, 224, 168, 232, 176, 240, 184, 248, 191, 255}
    /\ b[4] >= 1

\* a complete frame: accepted header, as many bytes as the size byte says
WellFramed(f) ==
    /\ Len(f) >= 5
    /\ HeaderAccepted(SubSeq(f, 1, 5))
    /\ Len(f) = 5 + f[4]

ChecksumRight(f) == f[Len(f)] = SumRange(f, 1, Len(f) - 1) % 256

\* the request was written in full, once
RequestWritten == nWrites = 1 /\ portIn = RequestPacket(op)

\* the line delivers the echoes and then, without stray bytes, a frame
CleanResponse == layout.junk = << >> /\ WellFramed(layout.resp)

\* C5: after the request is written, sendPacket discards the echoes, however
\* many there are, and returns the first frame with another command byte; it
\* has then consumed exactly the echoes and that frame: while echoes remain
\* the stream holds the remaining echoes, the response and what follows it,
\* and at the end it holds exactly what follows the response.
C5_EchoesDiscarded ==
    (RequestWritten /\ CleanResponse /\ ChecksumRight(layout.resp)
       /\ layout.resp[5] # RequestPacket(op)[5])
    => /\ (cpc = "loop" /\ nReads <= layout.echoes =>
             portOut = Repeat(RequestPacket(op), layout.echoes - nReads)
                         \o layout.resp \o layout.tail)
       /\ (cpc = "returned" =>
             /\ p = layout.resp
             /\ nReads = layout.echoes + 1
             /\ portOut = layout.tail)

\* C5 witness: two echoes were discarded, the response returned, and the
\* frame that follows it is still unread.
C5_Witness ==
    /\ cpc = "returned" /\ RequestWritten /\ CleanResponse
    /\ ChecksumRight(layout.resp)
    /\ layout.resp[5] # RequestPacket(op)[5]
    /\ layout.echoes >= 2
    /\ layout.tail # << >>
    /\ ret.err = "nil"

\* C6: when the checksum byte of the received frame is not the low 8 bits of
\* the sum of the bytes before it, the operation returns the invalid-checksum
\* error, having written once and read nothing after that frame.
C6_ChecksumMismatchSurfaces ==
    (cpc = "returned" /\ RequestWritten /\ CleanResponse
       /\ ~ChecksumRight(layout.resp))
    => /\ ret.err = "ErrInvalidChecksumByte"
       /\ nWrites = 1
       /\ nReads = layout.echoes + 1
       /\ portOut = layout.tail

\* C6 witness: the error was returned for a frame that came after an echo and
\* in front of another frame.
C6_Witness ==
    /\ cpc = "returned" /\ RequestWritten /\ CleanResponse
    /\ ~ChecksumRight(layout.resp)
    /\ ret.err = "ErrInvalidChecksumByte"
    /\ layout.echoes >= 1
    /\ layout.tail # << >>

\* C7: when sendPacket has returned the first frame that is not an echo, the
\* operation returns ErrInvalidResponseCommand and nothing else if its command
\* is not the response paired with the request, and succeeds if it is.
C7_ResponseCommandChecked ==
    (cpc = "returned" /\ RequestWritten /\ nReads >= 1
       /\ currentCommand # sentCommand)
    => IF currentCommand # (IF op.name = "InitECU" THEN 255 ELSE 232)
         THEN ret = [err |-> "ErrInvalidResponseCommand"]
         ELSE ret.err = "nil"

Wire ==
    Repeat(RequestPacket(op), layout.echoes)
        \o layout.junk \o layout.resp \o layout.tail

\* the last call of NextPacket returned a packet and no error (it is in p)
LastReadOk ==
    /\ nReads >= 1
    /\ \/ cpc = "loop"
       \/ cpc = "returned" /\ ret.err \in {"nil", "ErrInvalidResponseCommand", "panic"}

\* C11: every packet P that NextPacket returns without error (the packet
\* SendReadAddressesRequest returns included) has a valid header, a checksum
\* byte equal to the sum of the bytes before it mod 256, len(P) = 5 + P[3],
\* and Data(P) of length P[3] - 1; P is, byte for byte, the last len(P) bytes
\* taken from the line, and Data(P) the bytes between its header and its
\* checksum.
C11_ReturnedPacketWellFormed ==
    LastReadOk =>
      LET consumed == Len(Wire) - Len(portOut)
      IN  /\ Len(p) >= 6
          /\ HeaderAccepted(SubSeq(p, 1, 5))
          /\ ChecksumRight(p)
          /\ Len(p) = 5 + p[4]
          /\ Len(Data(p)) = p[4] - 1
          /\ consumed >= Len(p)
          /\ p = SubSeq(Wire, consumed - Len(p) + 1, consumed)
          /\ Data(p) = SubSeq(Wire, consumed - Len(p) + 6, consumed - 1)
          /\ (cpc = "returned" /\ ret.err = "nil"
                /\ op.name = "SendReadAddressesRequest" => ret.packet = p)

\* C11 witness: SendReadAddressesRequest returned a packet with several data
\* bytes that NextPacket found after realigning on stray bytes, behind an echo.
C11_Witness ==
    /\ cpc = "returned" /\ ret.err = "nil"
    /\ op.name = "SendReadAddressesRequest"
    /\ Len(Data(ret.packet)) >= 2
    /\ layout.junk # << >>
    /\ layout.echoes >= 1

\* C12: InitECU calls Write once, with the six bytes 80 10 F0 01 BF 40
\* (destination engine, source diagnostic tool, size 1, command init request,
\* checksum 0x40), and reads a response only after these bytes are on the
\* line; nothing else is ever written.
C12_InitRequestWritten ==
    op.name = "InitECU" =>
      /\ (cpc = "idle" => nWrites = 0 /\ nReads = 0 /\ portIn = << >>)
      /\ (cpc # "idle" => nWrites = 1 /\ sentCommand = 191)
      /\ (cpc # "idle" /\ nReads = 0 => p = <<128, 16, 240, 1, 191, 64>>)
      /\ (cpc = "loop" \/ nReads >= 1 => portIn = <<128, 16, 240, 1, 191, 64>>)

\* C12 witness: InitECU has returned an ECU after reading an echo of its
\* request and the response.
C12_Witness ==
    /\ op.name = "InitECU"
    /\ cpc = "returned" /\ ret.err = "nil"
    /\ nReads >= 2
    /\ portIn = <<128, 16, 240, 1, 191, 64>>

\* C13: for every list of N addresses and either flag, the one frame
\* SendReadAddressesRequest writes is 80 10 F0 LEN A8 FLAG addr0 addr1 ... CKS
\* with LEN = 3N + 2, FLAG 01 when continuous and 00 otherwise, the addresses
\* in the given order, three bytes each as given, and CKS the sum of the bytes
\* before it mod 256.
C13_ReadAddressesFrame ==
    (op.name = "SendReadAddressesRequest" /\ (cpc = "loop" \/ nReads >= 1)) =>
      LET N == Len(op.addresses)
      IN  /\ nWrites = 1
          /\ Len(portIn) = 3 * N + 7
          /\ SubSeq(portIn, 1, 3) = <<128, 16, 240>>
          /\ portIn[4] = 3 * N + 2
          /\ portIn[5] = 168
          /\ portIn[6] = (IF op.continous THEN 1 ELSE 0)
          /\ \A i \in 1..N : \A j \in 1..3 :
                portIn[6 + 3 * (i - 1) + j] = op.addresses[i][j]
          /\ ChecksumRight(portIn)

\* C29: for every address list, the long ones included, the frame that
\* SendReadAddressesRequest writes has 5 + P[3] bytes, P[3] being the number
\* of its data bytes plus one and not that number modulo 256, and its header
\* is accepted by validateHeader.
C29_RequestSizeByteNeverWraps ==
    (op.name = "SendReadAddressesRequest" /\ (cpc = "loop" \/ nReads >= 1)) =>
      /\ Len(portIn) = PacketHeaderSize + portIn[4]
      /\ portIn[4] = Len(ReadAddressesData(op.addresses, op.continous)) + 1
      /\ validateHeader(SubSeq(portIn, 1, PacketHeaderSize)) = "nil"

\* C20: when Write reported fewer bytes than the request has and no error (a
\* proper part of the request is all that went out), InitECU and
\* SendReadAddressesRequest return a non-nil error, without a panic, and no
\* response was read.
C20_ShortWriteReturnsError ==
    (nWrites = 1 /\ portIn # << >> /\ Len(portIn) < Len(RequestPacket(op))) =>
      /\ cpc = "returned"
      /\ ret.err \notin {"none", "nil", "panic"}
      /\ nReads = 0

(***************************************************************************)
(* Claims about the frame codec                                            *)
(***************************************************************************)
\* C9: every packet P that newPacket builds has P[0] = 0x80,
\* P[3] = len(payload) + 1, its last byte equal to the sum of the others
\* mod 256, and a header that validateHeader accepts.
C9_PacketInvariant ==
    codecOut.fn = "validateHeader" =>
      /\ codecOut.packet[1] = 128
      /\ codecOut.packet[4] = Len(codecIn.data) + 1
      /\ codecOut.packet[Len(codecOut.packet)]
           = SumRange(codecOut.packet, 1, Len(codecOut.packet) - 1) % 256
      /\ codecOut.err = "nil"

\* C10: Data(newPacket(src, dst, cmd, payload)) is the payload, byte for byte.
C10_DataRoundTrip ==
    codecOut.fn \in {"Data", "validateHeader"} => codecOut.data = codecIn.data

\* C10 witness: Data was taken from a packet built around a payload of a few
\* bytes that are not all equal.
C10_Witness ==
    /\ codecOut.fn = "Data"
    /\ Len(codecIn.data) >= 2
    /\ codecIn.data[1] # codecIn.data[2]

(***************************************************************************)
(* Claims about the capability resolver                                    *)
(***************************************************************************)
\* bytes lo..hi (counted from 0) of a payload, -1 where it has no such byte
PayloadBytesAt(payload, lo, hi) ==
    [i \in 1..(hi - lo + 1) |->
        IF lo + i <= Len(payload) THEN payload[lo + i] ELSE -1]

\* the catalogue parameters whose capability byte lies inside the payload and
\* whose capability bit is 1 in it
FlaggedIn(payload) ==
    { q.Id : q \in { r \in Parameters :
                       /\ r.CapabilityByteIndex < Len(payload)
                       /\ (payload[r.CapabilityByteIndex + 1]
                             \div (2 ^ r.CapabilityBitIndex)) % 2 = 1 } }

\* C14: for every init-response payload, parseECUFromInitResponse returns an
\* ECU whose SSM_ID is payload bytes 0..2, whose ROM_ID is payload bytes 3..7
\* and whose supported primitives are exactly the catalogue parameters whose
\* capability byte is inside the payload with the capability bit set.
C14_EcuFromPayload ==
    codecOut.fn \in {"parsed", "parsedBoth"} =>
      LET payload == codecIn.ids \o codecIn.caps
      IN  /\ codecOut.first.err = "nil"
          /\ codecOut.first.ecu.SSM_ID = PayloadBytesAt(payload, 0, 2)
          /\ codecOut.first.ecu.ROM_ID = PayloadBytesAt(payload, 3, 7)
          /\ codecOut.first.ecu.SupportedParameters = FlaggedIn(payload)

\* the derived parameters a result of AvailableDerivedParameters hands out
Returned(result) == { result[id] : id \in DOMAIN result }

\* the derived parameters whose dependencies are all ids of prims
Reachable(prims) ==
    { d.Id : d \in { e \in DerivedParameters :
                       \A i \in 1..Len(e.DependsOnParameters) :
                          e.DependsOnParameters[i] \in prims } }

\* C15: for every set of supported primitives, AvailableDerivedParameters
\* returns a derived parameter if and only if every id of its dependency list
\* is the id of a supported primitive, and the derived parameters of an ECU
\* are this set for its supported primitives (exactly P200 for P8, P12, P239,
\* P240, P241).
C15_DerivedIffDependenciesSupported ==
    /\ codecOut.fn = "AvailableDerivedParameters" =>
          /\ DOMAIN codecOut.derived = Reachable(codecIn.prims)
          /\ Returned(codecOut.derived) = Reachable(codecIn.prims)
    /\ (codecOut.fn \in {"parsed", "parsedBoth"} /\ codecOut.first.err = "nil") =>
          Returned(codecOut.first.ecu.SupportedDerivedParameters)
            = Reachable(codecOut.first.ecu.SupportedParameters)

\* C16: when every bit set in the capability bytes of one init response is
\* set in those of another of the same length, the supported primitives of
\* the first are among those of the second, and so are its supported derived
\* parameters.
C16_ResolverMonotone ==
    (codecOut.fn = "parsedBoth" /\ codecOut.second.err = "nil"
       /\ Covers(codecIn.caps, codecIn.caps2))
    => /\ codecOut.first.ecu.SupportedParameters
            \subseteq codecOut.second.ecu.SupportedParameters
       /\ Returned(codecOut.first.ecu.SupportedDerivedParameters)
            \subseteq Returned(codecOut.second.ecu.SupportedDerivedParameters)

(***************************************************************************)
(* Claims about the life cycle of the serial port                          *)
(***************************************************************************)
\* the number of Close / Initialize / Operation calls made so far
CallsOf(name) == Cardinality({ i \in 1..Len(calls) : calls[i] = name })

\* C21: whatever methods are called on a connection, each byte stream is
\* closed at most once, it has been closed (once) as soon as Close() was
\* called on a connection holding it, and no second stream is ever opened:
\* there is no way back from closed to open.
C21_StreamClosedExactlyOnce ==
    /\ \A i \in 1..Len(streams) : streams[i] <= 1
    /\ (streams # << >> /\ CallsOf("Close") >= 1 => streams[1] = 1)
    /\ Len(streams) <= 1

(***************************************************************************)
(* Claims about unit conversion                                            *)
(***************************************************************************)
\* C22: converting a value from a unit to the same unit succeeds and returns
\* the value unchanged with that unit, through units.Convert and through
\* ParameterValue.ConvertTo alike.
C22_SelfConversionIsIdentity ==
    codecIn.from = codecIn.to =>
      /\ (codecOut.fn = "Convert" =>
            codecOut.out = [value |-> codecIn.value, err |-> "nil"])
      /\ (codecOut.fn = "ConvertTo" =>
            /\ codecOut.out.err = "nil"
            /\ codecOut.out.pv = [Value |-> codecIn.value, Unit |-> codecIn.from])

\* the receiver of the method called
Receiver == [Value |-> codecIn.value, Unit |-> codecIn.from]

\* C23: for two different units, ConvertTo returns the invalid-conversion
\* error and a nil value exactly when UnitConversions has no function for
\* from -> to, and otherwise the value that function gives, tagged with the
\* target unit; the receiver is as it was in both cases.
C23_ConvertToErrorIffNoEdge ==
    (codecOut.fn = "ConvertTo" /\ codecIn.from # codecIn.to) =>
      /\ (<<codecIn.from, codecIn.to>> \notin ConversionEdges =>
            /\ codecOut.out.err = "ErrorInvalidConversion"
            /\ codecOut.out.pv = NilValue)
      /\ (<<codecIn.from, codecIn.to>> \in ConversionEdges =>
            /\ codecOut.out.err = "nil"
            /\ codecOut.out.pv =
                  [Value |-> ApplyConversion(codecIn.from, codecIn.to, codecIn.value),
                   Unit |-> codecIn.to])
      /\ codecOut.out.receiver = Receiver

\* C23 witness: 25 mph converted to km/h gave 40.2335 km/h.
C23_Witness ==
    /\ codecIn = [value |-> <<25, 1>>, from |-> "mph", to |-> "km/h"]
    /\ codecOut.fn = "ConvertTo"
    /\ codecOut.out.pv = [Value |-> <<80467, 2000>>, Unit |-> "km/h"]

\* C24: SafeConvertTo returns a value for every value and pair of units: the
\* one ConvertTo returns when the units are equal or the table has the
\* conversion, and 0 tagged with the target unit when it has not.
C24_SafeConvertToNeverFails ==
    codecOut.fn = "SafeConvertTo" =>
      /\ codecOut.out # NilValue
      /\ codecOut.out.Unit = codecIn.to
      /\ IF codecIn.from = codecIn.to
              \/ <<codecIn.from, codecIn.to>> \in ConversionEdges
           THEN /\ ConvertTo(Receiver, codecIn.to).err = "nil"
                /\ codecOut.out = ConvertTo(Receiver, codecIn.to).pv
           ELSE /\ ConvertTo(Receiver, codecIn.to).err # "nil"
                /\ codecOut.out = [Value |-> Zero, Unit |-> codecIn.to]

\* C24 witness: 25 mph converted safely to AFR gave (0, AFR).
C24_Witness ==
    /\ codecIn = [value |-> <<25, 1>>, from |-> "mph", to |-> "AFR"]
    /\ codecOut.fn = "SafeConvertTo"
    /\ codecOut.out = [Value |-> <<0, 1>>, Unit |-> "AFR"]

(***************************************************************************)
(* Claims about the decoders                                               *)
(***************************************************************************)
\* C25: for every parameter of Length 2 and every pair of bytes b0, b1 read
\* at address and address+1, the Value function completes, and its value is
\* the parameter's transform of 256*b0 + b1, tagged with the default unit.
C25_TwoByteDecoderReads16Bits ==
    codecOut.fn = "Value" =>
      /\ ~codecOut.out.panic
      /\ codecOut.out.Value =
            Transformed(TwoByteDecoders[codecIn.id], 256 * codecIn.b0 + codecIn.b1)
      /\ codecOut.out.Unit = TwoByteDecoders[codecIn.id].Unit

(***************************************************************************)
(* Claims about frame resynchronisation                                    *)
(***************************************************************************)
\* a frame with a valid header and a right checksum starts at offset k of s
ValidFrameAt(s, k) ==
    /\ Len(s) >= k + PacketHeaderSize
    /\ validateHeader(SubSeq(s, k + 1, k + PacketHeaderSize)) = "nil"
    /\ Len(s) >= k + PacketHeaderSize + s[k + 4]
    /\ ChecksumMatches(SubSeq(s, k + 1, k + PacketHeaderSize + s[k + 4]))

FrameAt(s, k) == SubSeq(s, k + 1, k + PacketHeaderSize + s[k + 4])

\* the five bytes NextPacket reads first
FirstFive == SubSeq(Line, 1, PacketHeaderSize)

\* the offsets k > 0 of the magic bytes among them
MagicOffsets == { k \in 1..(PacketHeaderSize - 1) : FirstFive[k + 1] = PacketMagicByte }

FirstMagicOffset == CHOOSE k \in MagicOffsets : \A j \in MagicOffsets : k <= j

\* NextPacket returned the frame at offset k and left what follows it unread
ReturnedFrameAt(k) ==
    /\ codecOut.out.err = "nil"
    /\ codecOut.out.packet = FrameAt(Line, k)
    /\ codecOut.out.rest = SubSeq(Line, k + Len(FrameAt(Line, k)) + 1, Len(Line))

\* the five bytes failed validation and NextPacket has returned
InvalidHeaderRead ==
    /\ codecOut.fn = "NextPacket"
    /\ Len(Line) >= PacketHeaderSize
    /\ validateHeader(FirstFive) # "nil"

InFlight == { i \in 1..Len(gs) : gs[i].gpc = "read" }

\* C28: a NextPacket whose context is cancelled and whose readInFull is not
\* over has the cancellation error to return at once; once a readInFull has
\* returned, its goroutine reads no byte from the port, so at most one Read is
\* in flight and no byte is lost to the next NextPacket.
C28_NoReadAfterReturn ==
    /\ Cardinality(InFlight) <= 1
    /\ lost = 0
    /\ \A i \in 1..Len(gs) : gs[i].gpc = "read" => gs[i].owner

\* the goroutine i is at a send on its result channel, which is full
BlockedOnSend(i) ==
    /\ gs[i].gpc \in {"sendCtx", "sendErr", "sendOk"}
    /\ gs[i].chan # "empty"

\* C37: every goroutine started by readInFull ends once readInFull has
\* returned; in particular none is left at a send on a result channel that
\* is full, since nothing receives from the channel after the return and the
\* goroutine then stays there for ever
C37_NoGoroutineBlockedAfterReturn ==
    \A i \in 1..Len(gs) : ~gs[i].owner => ~BlockedOnSend(i)

(***************************************************************************)
(* Claims about suspending the logging for the DTC reads                   *)
(***************************************************************************)
\* session i uses the connection c: it calls LoggingSession on it, its
\* processPackets runs on it, or one of its reader goroutines is in Read on it
UsesConnection(i, c) ==
    \/ sessions[i].spc = "open" /\ connection = c
    \/ sessions[i].spc = "range" /\ sessions[i].conn = c
    \/ c \in sessions[i].stale

\* the calls of readDTCs after which refresh returns
FinishedReads == {<<"error">>, <<"returned", "error">>, <<"returned", "returned">>}

\* C30: while refresh reads the set and the stored DTCs, no logging session
\* uses the connection (the running session was cancelled and its reader had
\* finished before the first DTC request), and refresh starts the logging
\* again only after its last readDTCs has returned, with or without an error
C30_NoSessionDuringDTCRead ==
    /\ upc \in DtcReading =>
          \A i \in 1..Len(sessions) : ~UsesConnection(i, connection)
    /\ \A i \in 1..Len(sessions) :
          sessions[i].by = "refresh" => sessions[i].after \in FinishedReads

(***************************************************************************)
(* Claims about the consumer of the session channel                        *)
(***************************************************************************)
\* what the claim expects for the value v when the subscription names the
\* unit u: the converted value tagged u when the conversion exists, else v
Expected(v, u) ==
    IF u = v.Unit THEN v
    ELSE IF <<v.Unit, u>> \in ConversionEdges
      THEN [Value |-> Convert(v.Value, v.Unit, u).value, Unit |-> u]
      ELSE v

\* C31: every processor receives the frame, in which a value whose
\* subscription names another unit is the converted value tagged with that
\* unit when the conversion exists and the original value otherwise, and a
\* value without subscription or already in the desired unit is unchanged
C31_PipelineConvertsToDesiredUnit ==
    codecOut.fn = "openLoggingSession" =>
      /\ DOMAIN codecOut.delivered = 1..codecIn.processors
      /\ \A k \in 1..codecIn.processors :
           /\ DOMAIN codecOut.delivered[k] = DOMAIN codecIn.result
           /\ \A id \in DOMAIN codecIn.result :
                codecOut.delivered[k][id] =
                  IF id \notin DOMAIN codecIn.seen
                       \/ codecIn.seen[id] = codecIn.result[id].Unit
                    THEN codecIn.result[id]
                    ELSE Expected(codecIn.result[id], codecIn.reread[id])

\* a frame with a converted value, a value whose conversion fails and two
\* processors
C31_Witness ==
    /\ codecOut.fn = "openLoggingSession"
    /\ codecIn.processors = 2
    /\ DOMAIN codecIn.result = PipeIds
    /\ DOMAIN codecIn.seen = PipeIds
    /\ codecIn.result["P8"].Unit = "mph" /\ codecIn.reread["P8"] = "km/h"
    /\ codecIn.result["P9"].Unit = "AFR" /\ codecIn.reread["P9"] = "km/h"
    /\ codecIn.seen = codecIn.reread
    /\ codecOut.delivered[2]["P8"].Unit = "km/h"
    /\ codecOut.delivered[2]["P9"] = codecIn.result["P9"]

(***************************************************************************)
(* Claims about the order of the resolver's lists                          *)
(***************************************************************************)
\* the ids of the catalogue in the order of their numbers
CatalogueOrder == <<"P7", "P8", "P9", "P11", "P12", "P21", "P160", "P200", "P201",
                    "P237", "P239", "P240", "P241", "P242">>

PositionOf(id) == CHOOSE i \in DOMAIN CatalogueOrder : CatalogueOrder[i] = id

InIdOrder(list) ==
    \A i, j \in DOMAIN list : i < j => PositionOf(list[i]) < PositionOf(list[j])

\* C32: two runs of the resolver on the same init response give the same
\* list of supported primitives and the same list of supported derived
\* parameters, each in the id order of the catalogue
C32_ResolverOrderIsDeterministic ==
    codecOut.fn = "runs" =>
      /\ codecOut.first = codecOut.second
      /\ InIdOrder(codecOut.first.SupportedParameters)
      /\ InIdOrder(codecOut.first.SupportedDerivedParameters)

(***************************************************************************)
(* Claims about Address.Add                                                *)
(***************************************************************************)
\* the carry out of a byte position
Carry(sum) == sum \div 256

\* C33: Add(i) is the three-byte big-endian encoding of (a + i) mod 2^24:
\* the carry of every byte goes into the next higher one and is dropped
\* above the highest, 0x1FFFFF + 36 = 0x200023, 0x000000 + 1 = 0x000001,
\* and Add(0) is the address itself
C33_AddIsBigEndianSum ==
    codecOut.fn = "Add" =>
      LET a == codecIn.a
          i == codecIn.i
          low == a[3] + (i % 256)
          mid == a[2] + ((i \div 256) % 256) + Carry(low)
          high == a[1] + ((i \div 65536) % 256) + Carry(mid)
      IN  /\ codecOut.out = <<high % 256, mid % 256, low % 256>>
          /\ i = 0 => codecOut.out = a
          /\ (a = <<31, 255, 255>> /\ i = 36) => codecOut.out = <<32, 0, 35>>
          /\ (a = <<0, 0, 0>> /\ i = 1) => codecOut.out = <<0, 0, 1>>

\* 0x1FFFFF + 36: the carry has crossed two bytes
C33_Witness ==
    /\ codecOut.fn = "Add"
    /\ codecIn.a = <<31, 255, 255>>
    /\ codecIn.i = 36
    /\ codecOut.out = <<32, 0, 35>>

(***************************************************************************)
(* Claims about the lists of a session                                     *)
(***************************************************************************)
\* C36: when a derived parameter is evaluated, every id it depends on is a
\* key of the map of the frame, for all lists CurrentLists can return
C36_DependenciesPresent ==
    codecOut.fn = "values" =>
      \A j \in 1..Len(codecOut.lists.derived) :
         \A i \in 1..Len(codecOut.lists.derived[j].DependsOnParameters) :
            codecOut.lists.derived[j].DependsOnParameters[i] \in codecOut.keys[j]

(***************************************************************************)
(* Claims about DisableLogging                                             *)
(***************************************************************************)
\* C38: DisableLogging always returns: whenever it waits for doneLogging
\* after cancelling, the signal comes, also when the session is still in the
\* loop that calls LoggingSession
C38_DisableLoggingReturns == (upc \in UiWaiting) ~> (upc \notin UiWaiting)

(***************************************************************************)
(* Claims about LoggedParams                                               *)
(***************************************************************************)
\* C39: the map CopyData returned is a snapshot: whatever Remove, Update,
\* UpdateOrAdd or a write through a pointer from Get does afterwards, the
\* map still has the ids it had and every id still shows the subscription
\* (unit, flags) it showed when the map was returned
C39_CopyDataIsSnapshot ==
    codecOut.fn = "CopyData" =>
      /\ DOMAIN codecOut.m = DOMAIN codecOut.seen
      /\ \A k \in DOMAIN codecOut.m : codecIn.heap[codecOut.m[k]] = codecOut.seen[k]

====
